---- MODULE Spec2Model ----
(***************************************************************************)
(* The evaluation task pipeline of the CV evaluation backend:              *)
(*   - the task table (app/models/database.py) and the endpoints that      *)
(*     create and delete rows (app/api/routes.py),                         *)
(*   - EvaluationPipeline.run_evaluation and _execute_pipeline             *)
(*     (app/services/evaluation_pipeline.py),                              *)
(*   - GeminiService (app/services/gemini_service.py): the tenacity retry  *)
(*     around generate_content_async and the four prompt steps,            *)
(*   - the pydantic range checks of app/models/schemas.py.                 *)
(*                                                                         *)
(* Every await of run_evaluation is one step of the task's process, so     *)
(* runs of different tasks interleave the way asyncio interleaves them.    *)
(* The outside world (the generation service, the file readers, the        *)
(* database driver, the random fault injection) is a nondeterministic      *)
(* choice in the step that calls it.                                       *)
(*                                                                         *)
(* Units: cv_match_rate is kept in tenths (5 is 0.5, 10 is 1.0);           *)
(* project_score and the sub-scores are kept as they are.                  *)
(***************************************************************************)
EXTENDS Integers, Sequences, FiniteSets, TLC

\* ------------------------------------------------------------------ bounds

\* Number of task ids there are.
MaxTasks == 2

\* Number of submissions the clients make.
MaxSubmissions == 1

\* Largest n_results a retrieval is tried with.
MaxResults == 3

\* Number of tasks that run at the same time.
MaxRunning == 2

Tasks == 1..MaxTasks

\* ------------------------------------------------------- program constants

\* stop_after_attempt(3)
MaxAttempts == 3

\* wait_exponential(multiplier=1, min=4, max=10), exp_base left at 2: seconds
WaitMultiplier == 1
WaitMin == 4
WaitMax == 10
ExpBase == 2

\* Field(ge=0, le=1) of cv_match_rate, in tenths
RateMin == 0
RateMax == 10
\* Field(ge=1, le=10) of project_score
ScoreMin == 1
ScoreMax == 10
\* Field(ge=1, le=5) of every sub-score
SubMin == 1
SubMax == 5

\* fallback values of the parse-failure branches
DefaultRate == 5
DefaultScore == 5
DefaultSub == 3

\* MAX_FILE_SIZE = 10 * 1024 * 1024, in megabytes
MAX_FILE_SIZE == 10

\* ----------------------------------------------------------- nullable values

Null == <<>>
Some(x) == <<x>>

\* ------------------------------------------------------------ TaskStatus

QUEUED == "queued"
PROCESSING == "processing"
COMPLETED == "completed"
FAILED == "failed"

TaskStatus == {QUEUED, PROCESSING, COMPLETED, FAILED}

\* ------------------------------------------------------ the task table

\* The value of row[t] when the table holds no row with id t.
NoRow == [status |-> "no row"]

\* A file name (and the path it is saved under): what os.path.splitext
\* makes of it.
FileName(stem, ext) == [stem |-> stem, ext |-> ext]

CvNames == {FileName("cv", ".pdf"), FileName("cv", ".md")}
ReportNames == {FileName("report", ".DOCX"), FileName("report", ".md")}

\* str.lower() on the extensions that occur.
Lower(ext) ==
    CASE ext = ".PDF" -> ".pdf"
      [] ext = ".DOCX" -> ".docx"
      [] ext = ".Docx" -> ".docx"
      [] ext = ".DOC" -> ".doc"
      [] ext = ".TXT" -> ".txt"
      [] ext = ".MD" -> ".md"
      [] OTHER -> ext

\* EvaluationTask(cv_file_path=.., project_report_path=.., status=QUEUED):
\* result and error_message are nullable columns without a default.
NewTask(cv_file_path, project_report_path) ==
    [status |-> QUEUED, result |-> Null, error_message |-> Null,
     cv_file_path |-> cv_file_path, project_report_path |-> project_report_path]

\* update(EvaluationTask).where(id == task_id).values(status=PROCESSING):
\* an UPDATE changes the row when there is one, and nothing when there is
\* none; the columns it does not name keep their values.
UpdateProcessing(r) ==
    IF r = NoRow THEN NoRow ELSE [r EXCEPT !.status = PROCESSING]

\* UpdateCompleted as an upsert: a row that is gone is written anew.
UpdateCompleted_upsert(r, res) ==
    IF r = NoRow
    THEN [NewTask(FileName("cv", ".pdf"), FileName("report", ".DOCX"))
            EXCEPT !.status = COMPLETED, !.result = Some(res)]
    ELSE [r EXCEPT !.status = COMPLETED, !.result = Some(res)]

\* .values(status=COMPLETED, result=evaluation_result.dict())
UpdateCompleted(r, res) ==
    IF r = NoRow THEN NoRow
    ELSE [r EXCEPT !.status = COMPLETED, !.result = Some(res)]

\* UpdateFailed with the error_message column left out of .values(..)
UpdateFailedStatusOnly(r, msg) ==
    IF r = NoRow THEN NoRow ELSE [r EXCEPT !.status = FAILED]

\* .values(status=FAILED, error_message=str(e))
UpdateFailed(r, msg) ==
    IF r = NoRow THEN NoRow
    ELSE [r EXCEPT !.status = FAILED, !.error_message = Some(msg)]

\* ------------------------------------------------------------ exceptions

\* An exception: its class, str(e), and the step of run_evaluation in
\* which it was raised.
Exc(type, msg, at) == [type |-> type, msg |-> msg, at |-> at]

NoExc == [type |-> "none", msg |-> "", at |-> ""]

\* failure_types of _simulate_processing_delay
SimulatedFailures ==
    { "Gemini API rate limit exceeded",
      "Network timeout during AI processing",
      "Temporary service unavailable" }

\* What a reader of extract_text_from_file raises (a missing or corrupt
\* file).
ExtractionErrors ==
    { [type |-> "FileNotFoundError", msg |-> "No such file or directory"] }

\* extract_text_from_file: the dispatch on the lower-cased extension; the
\* else branch raises ValueError(f"Unsupported file format: {ext}").
extract_text_from_file(file_path, at) ==
    IF Lower(file_path.ext) \in {".pdf", ".docx", ".doc", ".txt"}
    THEN [raised |-> FALSE, value |-> "text of " \o file_path.stem]
    ELSE [raised |-> TRUE,
          exc |-> Exc("ValueError", "Unsupported file format: " \o Lower(file_path.ext), at)]

\* What the driver raises from session.execute / session.commit.
DbErrorMsg == "database is locked"

\* What the generation service raises from model.generate_content.
ServiceErrors ==
    { [type |-> "ResourceExhausted", msg |-> "429 Resource has been exhausted"] }

\* ------------------------------------------- the generation service's answers

\* An answer of model.generate_content is described by what the step's
\* cleaning (strip, fence removal) and json.loads make of response.text:
\*   kind "text"   : json.loads raises JSONDecodeError,
\*   kind "array"  : json.loads returns a value that is not an object,
\*   kind "object" : json.loads returns a dict with the keys `keys`.
\* typed = FALSE: some field has a value pydantic cannot coerce.

NotJson == [kind |-> "text", body |-> "Sure! Here is the evaluation you asked for"]
NotObject == [kind |-> "array"]

ProfileRequired == {"skills", "experiences", "projects", "education", "achievements"}

\* ExtractedCVData
EmptyProfile == [skills |-> <<>>, years_of_experience |-> Null]
ModelProfile == [skills |-> <<"Python", "Docker">>, years_of_experience |-> Some(4)]

ProfileObject(keys, typed) ==
    [kind |-> "object", keys |-> keys, typed |-> typed, profile |-> ModelProfile]

ProfileResponses ==
    { NotJson, NotObject,
      ProfileObject(ProfileRequired \cup {"years_of_experience"}, TRUE),
      ProfileObject({"skills", "experiences"}, TRUE),
      ProfileObject(ProfileRequired, FALSE) }

\* The object a scoring prompt asks for: `scoreKey` is "match_rate" or
\* "score"; every sub-score of detailed_scores has the value sub; subkeys =
\* FALSE when detailed_scores lacks one of the sub-scores.
ScoreObject(keys, value, sub, subkeys) ==
    [kind |-> "object", keys |-> keys, value |-> value, sub |-> sub,
     subkeys |-> subkeys, feedback |-> "model feedback"]

CvKeys == {"match_rate", "feedback", "detailed_scores"}

CvResponses ==
    { NotJson, NotObject,
      ScoreObject(CvKeys, 7, 4, TRUE),
      ScoreObject(CvKeys, 15, 4, TRUE),
      ScoreObject(CvKeys, 7, 9, TRUE),
      ScoreObject(CvKeys, 7, 4, FALSE),
      ScoreObject({"feedback", "detailed_scores"}, 7, 4, TRUE),
      ScoreObject({"match_rate", "feedback"}, 7, 4, TRUE) }

ProjectKeys == {"score", "feedback", "detailed_scores"}

InitialResponses ==
    { NotJson, NotObject,
      ScoreObject(ProjectKeys, 6, 2, TRUE),
      ScoreObject({"feedback"}, 6, 2, TRUE) }

RefinedResponses ==
    { NotJson, NotObject,
      ScoreObject(ProjectKeys, 8, 4, TRUE),
      ScoreObject(ProjectKeys, 12, 4, TRUE),
      ScoreObject(ProjectKeys, 8, 0, TRUE),
      ScoreObject(ProjectKeys, 8, 4, FALSE),
      ScoreObject({"feedback", "detailed_scores"}, 8, 4, TRUE),
      ScoreObject({"score", "feedback"}, 8, 4, TRUE) }

SummaryResponses ==
    { [kind |-> "text", body |-> "Strong backend candidate; recommend hire."],
      [kind |-> "text", body |-> ""] }

\* One call of model.generate_content: it raises, or it answers.
Raised(e) == [kind |-> "raise", type |-> e.type, msg |-> e.msg]

ServiceOutcomes(responses) == {Raised(e) : e \in ServiceErrors} \cup responses

\* No call made yet.
NoAttempt == [kind |-> "none"]

\* --------------------------------------------------------- the AI gateway

\* tenacity, @retry(stop=stop_after_attempt(3), wait=...,
\* retry=retry_if_exception_type((Exception,))) with reraise left at its
\* default False: an attempt that answers returns; a failed attempt is
\* repeated until attempt_number reaches the stop; then RetryError is raised.
\* generate_content_async with the stop one attempt later
generate_content_async_stop_late(attempt_number, outcome) ==
    IF outcome.kind # "raise" THEN "return"
    ELSE IF attempt_number >= MaxAttempts + 1 THEN "raise"
    ELSE "retry"

\* generate_content_async with the parsing inside the retried function: an
\* answer that is not JSON counts as a failed attempt.
generate_content_async_parse_inside(attempt_number, outcome) ==
    IF outcome.kind \notin {"raise", "text"} THEN "return"
    ELSE IF attempt_number >= MaxAttempts THEN "raise"
    ELSE "retry"

generate_content_async(attempt_number, outcome) ==
    IF outcome.kind # "raise" THEN "return"
    ELSE IF attempt_number >= MaxAttempts THEN "raise"
    ELSE "retry"

\* tenacity's wait_exponential, called after attempt attempt_number failed:
\* multiplier * exp_base ** (attempt_number - 1), clamped to [min, max].
\* (Releases of the library that raise exp_base to attempt_number give the
\* same two waits here: 2 and 4 are both clamped to min.)
wait_exponential(attempt_number) ==
    LET result == WaitMultiplier * ExpBase ^ (attempt_number - 1)
        capped == IF result < WaitMax THEN result ELSE WaitMax
    IN  IF capped > WaitMin THEN capped ELSE WaitMin

\* str(RetryError): "RetryError[<Future at 0x.. state=finished raised X>]",
\* X the class of the last attempt's exception; its message is not in it.
RetryError(outcome, at) ==
    Exc("RetryError",
        "RetryError[<Future state=finished raised " \o outcome.type \o ">]", at)

\* ------------------------------------------------- the steps' parsing

Return(v) == [raised |-> FALSE, value |-> v]
Raise(e) == [raised |-> TRUE, exc |-> e]

InRange(x, lo, hi) == lo <= x /\ x <= hi

\* extract_cv_structure without its except json.JSONDecodeError clause
extract_cv_structure_uncaught(r) ==
    IF r.kind = "text"
      THEN Raise(Exc("JSONDecodeError", "Expecting value: line 1 column 1 (char 0)", "step1"))
    ELSE IF r.kind # "object"
      THEN Raise(Exc("TypeError", "argument after ** must be a mapping", "step1"))
    ELSE IF ~(ProfileRequired \subseteq r.keys) \/ ~r.typed
      THEN Raise(Exc("ValidationError", "validation error for ExtractedCVData", "step1"))
    ELSE Return(r.profile)

\* extract_cv_structure after the gateway returned r: json.loads, then
\* ExtractedCVData(**data); only json.JSONDecodeError is caught.
extract_cv_structure(r) ==
    IF r.kind = "text" THEN Return(EmptyProfile)
    ELSE IF r.kind # "object"
      THEN Raise(Exc("TypeError", "argument after ** must be a mapping", "step1"))
    ELSE IF ~(ProfileRequired \subseteq r.keys) \/ ~r.typed
      THEN Raise(Exc("ValidationError", "validation error for ExtractedCVData", "step1"))
    ELSE Return(r.profile)

\* CVEvaluation / ProjectEvaluation
Evaluation(value, feedback, sub) ==
    [value |-> value, feedback |-> feedback, sub |-> sub]

DefaultCv == Evaluation(DefaultRate, "Unable to evaluate CV properly", DefaultSub)
DefaultProject == Evaluation(DefaultScore, "Unable to evaluate project properly", DefaultSub)

\* The tail shared by evaluate_cv_match and the refinement half of
\* evaluate_project_report: data = json.loads(..);
\* X(**data['detailed_scores']); return data[scoreKey], data['feedback'], X
\* with except (json.JSONDecodeError, KeyError) returning the default.
parse_evaluation(r, scoreKey, model, default, at) ==
    IF r.kind = "text" THEN Return(default)
    ELSE IF r.kind # "object"
      THEN Raise(Exc("TypeError", "list indices must be integers or slices, not str", at))
    ELSE IF "detailed_scores" \notin r.keys THEN Return(default)
    ELSE IF ~r.subkeys \/ ~InRange(r.sub, SubMin, SubMax)
      THEN Raise(Exc("ValidationError", "validation error for " \o model, at))
    ELSE IF scoreKey \notin r.keys \/ "feedback" \notin r.keys THEN Return(default)
    ELSE Return(Evaluation(r.value, r.feedback, r.sub))

\* project_initial_parses when json.loads of the initial answer is not
\* inside the try block's reach: every answer goes on to the refinement.
project_initial_parses_any(r) == TRUE

\* evaluate_project_report, first half: initial_data = json.loads(..) and
\* nothing else is read from it; the same except clause covers it.
\* TRUE: go on to the refinement call; FALSE: the default is returned.
project_initial_parses(r) == r.kind # "text"

\* evaluate_cv_match catching json.JSONDecodeError alone: a KeyError of the
\* answer leaves the function.
evaluate_cv_match_keyerror(r) ==
    IF r.kind = "object" /\ ~(CvKeys \subseteq r.keys)
      THEN Raise(Exc("KeyError", "'match_rate'", "step3"))
    ELSE parse_evaluation(r, "match_rate", "CVEvaluation", DefaultCv, "step3")

evaluate_cv_match(r) ==
    parse_evaluation(r, "match_rate", "CVEvaluation", DefaultCv, "step3")

\* evaluate_project_refined catching json.JSONDecodeError alone: a KeyError
\* of the refined answer leaves the function.
evaluate_project_refined_keyerror(r) ==
    IF r.kind = "object" /\ ~(ProjectKeys \subseteq r.keys)
      THEN Raise(Exc("KeyError", "'score'", "step4_refine"))
    ELSE parse_evaluation(r, "score", "ProjectEvaluation", DefaultProject, "step4_refine")

\* evaluate_project_report, second half.
evaluate_project_refined(r) ==
    parse_evaluation(r, "score", "ProjectEvaluation", DefaultProject, "step4_refine")

GenericSummary == "Unable to generate comprehensive summary due to evaluation errors."

\* EvaluationResult built without validation (BaseModel.construct).
EvaluationResult_construct(c, p, s) ==
    Return([cv_match_rate |-> c.value, cv_feedback |-> c.feedback,
            project_score |-> p.value, project_feedback |-> p.feedback,
            overall_summary |-> s,
            cv_evaluation_details |-> c.sub,
            project_evaluation_details |-> p.sub])

\* EvaluationResult(...) at the end of _execute_pipeline: pydantic checks
\* Field(ge=0, le=1) and Field(ge=1, le=10); the details were checked when
\* they were built.
EvaluationResult(c, p, s) ==
    IF InRange(c.value, RateMin, RateMax) /\ InRange(p.value, ScoreMin, ScoreMax)
    THEN Return([cv_match_rate |-> c.value, cv_feedback |-> c.feedback,
                 project_score |-> p.value, project_feedback |-> p.feedback,
                 overall_summary |-> s,
                 cv_evaluation_details |-> c.sub,
                 project_evaluation_details |-> p.sub])
    ELSE Raise(Exc("ValidationError", "validation error for EvaluationResult", "step5"))

\* ------------------------------------------- from response.text to json.loads

\* A text is a sequence of characters. The characters that occur: the
\* backtick, the letters of the tag, blank and newline, and the characters
\* of the JSON documents below.
Whitespace == {" ", "\n"}

\* The backtick character, written as a word.
Backtick == "backtick"

Fence == <<Backtick, Backtick, Backtick>>
FenceJson == Fence \o <<"j", "s", "o", "n">>

\* str.lstrip / str.rstrip / str.strip
RECURSIVE lstrip(_)
lstrip(text) ==
    IF text # <<>> /\ Head(text) \in Whitespace THEN lstrip(Tail(text)) ELSE text

RECURSIVE rstrip(_)
rstrip(text) ==
    IF text # <<>> /\ text[Len(text)] \in Whitespace
    THEN rstrip(SubSeq(text, 1, Len(text) - 1))
    ELSE text

strip(text) == rstrip(lstrip(text))

\* str.startswith
startswith(text, prefix) ==
    Len(text) >= Len(prefix) /\ SubSeq(text, 1, Len(prefix)) = prefix

\* text[start:-end] for start, end > 0
Slice(text, start, end) == SubSeq(text, start + 1, Len(text) - end)

\* clean_response with the tagged fence cut one character short ([6:-3])
clean_response_short_cut(response) ==
    LET json_text == strip(response)
    IN  IF startswith(json_text, FenceJson) THEN Slice(json_text, 6, 3)
        ELSE IF startswith(json_text, Fence) THEN Slice(json_text, 3, 3)
        ELSE json_text

\* json_text = response.strip(); when it starts with the tagged fence,
\* json_text[7:-3]; else when it starts with a fence, json_text[3:-3].
clean_response(response) ==
    LET json_text == strip(response)
    IN  IF startswith(json_text, FenceJson) THEN Slice(json_text, 7, 3)
        ELSE IF startswith(json_text, Fence) THEN Slice(json_text, 3, 3)
        ELSE json_text

\* The structured steps.
StructuredSteps == {"step1", "step3", "step4_initial", "step4_refine"}

\* The JSON documents a step may be answered with: the text of the
\* document and the value json.loads makes of it.
Document(text, value) == [text |-> text, value |-> value]

Documents(step) ==
    CASE step = "step1" ->
            { Document(<<"{", "p", "}">>,
                       ProfileObject(ProfileRequired \cup {"years_of_experience"}, TRUE)),
              Document(<<"{", "}">>, ProfileObject({}, TRUE)),
              Document(<<"[", "]">>, NotObject) }
      [] step = "step3" ->
            { Document(<<"{", "c", "}">>, ScoreObject(CvKeys, 7, 4, TRUE)),
              Document(<<"{", "}">>, ScoreObject({}, 7, 4, TRUE)),
              Document(<<"[", "]">>, NotObject) }
      [] step = "step4_initial" ->
            { Document(<<"{", "i", "}">>, ScoreObject(ProjectKeys, 6, 2, TRUE)),
              Document(<<"{", "}">>, ScoreObject({}, 6, 2, TRUE)),
              Document(<<"[", "]">>, NotObject) }
      [] step = "step4_refine" ->
            { Document(<<"{", "r", "}">>, ScoreObject(ProjectKeys, 8, 4, TRUE)),
              Document(<<"{", "}">>, ScoreObject({}, 8, 4, TRUE)),
              Document(<<"[", "]">>, NotObject) }

\* json.loads(json_text) at a step: blanks and newlines around the
\* document are skipped; anything that is not a JSON document raises
\* JSONDecodeError, which is the answer NotJson of the steps' parsing.
json_loads(step, json_text) ==
    LET body == strip(json_text)
        found == {d \in Documents(step) : d.text = body}
    IN  IF found = {} THEN NotJson ELSE (CHOOSE d \in found : TRUE).value

\* ------------------------------------------------------ the context store

\* str.lower() on the characters that occur.
LowerChar(c) ==
    CASE c = "A" -> "a"
      [] c = "B" -> "b"
      [] c = "C" -> "c"
      [] OTHER -> c

str_lower(text) == [i \in 1..Len(text) |-> LowerChar(text[i])]

\* str.split(): the maximal runs of characters that are not whitespace.
RECURSIVE split_from(_, _, _)
split_from(text, word, words) ==
    IF text = <<>>
      THEN IF word = <<>> THEN words ELSE Append(words, word)
    ELSE IF Head(text) \in Whitespace
      THEN split_from(Tail(text), <<>>,
                      IF word = <<>> THEN words ELSE Append(words, word))
    ELSE split_from(Tail(text), Append(word, Head(text)), words)

str_split(text) == split_from(text, <<>>, <<>>)

\* word in content: word is a substring of content
Contains(content, word) ==
    \E i \in 0..(Len(content) - Len(word)) :
        SubSeq(content, i + 1, i + Len(word)) = word

\* score = sum(1 for word in query_words if word in content_lower)
RECURSIVE keyword_score(_, _)
keyword_score(query_words, content_lower) ==
    IF query_words = <<>> THEN 0
    ELSE (IF Contains(content_lower, Head(query_words)) THEN 1 ELSE 0)
         + keyword_score(Tail(query_words), content_lower)

\* list.sort(key=score, reverse=True) is stable: x goes after every element
\* whose score is at least its own.
RECURSIVE insert_descending(_, _)
insert_descending(sorted, x) ==
    IF sorted = <<>> THEN <<x>>
    ELSE IF Head(sorted).score >= x.score
      THEN <<Head(sorted)>> \o insert_descending(Tail(sorted), x)
    ELSE <<x>> \o sorted

RECURSIVE sort_by_score_from(_, _)
sort_by_score_from(docs, sorted) ==
    IF docs = <<>> THEN sorted
    ELSE sort_by_score_from(Tail(docs), insert_descending(sorted, Head(docs)))

\* sort_by_score without reverse=True: ascending, stable
RECURSIVE insert_ascending(_, _)
insert_ascending(sorted, x) ==
    IF sorted = <<>> THEN <<x>>
    ELSE IF Head(sorted).score <= x.score
      THEN <<Head(sorted)>> \o insert_ascending(Tail(sorted), x)
    ELSE <<x>> \o sorted

RECURSIVE sort_ascending_from(_, _)
sort_ascending_from(docs, sorted) ==
    IF docs = <<>> THEN sorted
    ELSE sort_ascending_from(Tail(docs), insert_ascending(sorted, Head(docs)))

sort_by_score_ascending(docs) == sort_ascending_from(docs, <<>>)

\* retrieved_docs.sort(key=lambda x: x["score"], reverse=True)
sort_by_score(docs) == sort_by_score_from(docs, <<>>)

\* The loop over self.documents.items(), in insertion order: a document
\* is skipped when a type is asked for and it has another one, and when
\* its score is 0.
RECURSIVE scored_documents(_, _, _)
scored_documents(documents, query_words, context_type) ==
    IF documents = <<>> THEN <<>>
    ELSE LET doc_data == Head(documents)
             score == keyword_score(query_words, str_lower(doc_data.content))
             rest == scored_documents(Tail(documents), query_words, context_type)
         IN  IF context_type # Null /\ Some(doc_data.type) # context_type THEN rest
             ELSE IF score > 0
               THEN <<[content |-> doc_data.content, type |-> doc_data.type,
                       score |-> score]>> \o rest
             ELSE rest

\* retrieved_docs[:n_results] for n_results >= 0
Take(docs, n_results) ==
    SubSeq(docs, 1, IF n_results < Len(docs) THEN n_results ELSE Len(docs))

\* VectorDBService.retrieve_context
retrieve_context(documents, query, context_type, n_results) ==
    Take(sort_by_score(scored_documents(documents, str_split(str_lower(query)),
                                        context_type)),
         n_results)

\* What a structured step makes of response.text: cleaning, json.loads,
\* then the step's own reading of the value.
structured_step(step, response) ==
    LET data == json_loads(step, clean_response(response))
    IN  CASE step = "step1" -> extract_cv_structure(data)
          [] step = "step3" -> evaluate_cv_match(data)
          [] step = "step4_initial" -> Return(project_initial_parses(data))
          [] step = "step4_refine" -> evaluate_project_refined(data)

\* ------------------------------------------------------------------ state

VARIABLES
    row,     \* the evaluation_tasks table: task id -> row, or NoRow
    pc,      \* where each task's run_evaluation stands
    frame,   \* the locals of each task's run_evaluation and of what it calls
    http,    \* the latest submission request and the response it got
    background_tasks,  \* task id -> number of add_task(run_evaluation, id)
    fn       \* the call of a library function under study, and its result

vars == <<row, pc, frame, http, background_tasks, fn>>

\* What a step of a run leaves alone.
outside == <<http, background_tasks, fn>>

\* A local that has no value yet, or whose function has returned.
Unset == [unset |-> TRUE]

\* attempt      : tenacity's attempt_number of the call in flight
\* last_attempt : outcome of the latest call of model.generate_content
\* exc          : the exception being handled, then the one run re-raises
\* waits        : the sleeps tenacity made between the attempts of the call
\*                in flight
\* context      : combined_cv_context, then project_rubric: the documents
\*                joined into the prompt of the next request
\* task         : the row run_evaluation selected
\* cv_data, cv, initial_data, proj : locals of _execute_pipeline and of
\*                evaluate_project_report
\* evaluation_result : the local of run_evaluation
\* profile_not_json : the answer to the profile-extraction request of this
\*                run was not JSON (history of the service's answers)
NewFrame ==
    [attempt |-> 1, waits |-> <<>>, last_attempt |-> NoAttempt, exc |-> NoExc,
     task |-> Unset, context |-> Unset,
     cv_data |-> Unset, cv |-> Unset, initial_data |-> Unset, proj |-> Unset,
     evaluation_result |-> Unset, profile_not_json |-> FALSE]

\* What stays when the frames of _execute_pipeline and below are left.
Leave(f) ==
    [NewFrame EXCEPT !.last_attempt = f.last_attempt,
                     !.profile_not_json = f.profile_not_json]

\* Positions of run_evaluation. "absent": the id was never issued;
\* "unscheduled": the row was committed and the request failed before
\* add_task; "scheduled": add_task done, run not started; "select" .. "handler":
\* the next await of the run; "returned" / "raised": how the run ended.
PipelineSteps ==
    {"extract_cv", "extract_project", "step1", "retrieve_cv_context", "step3",
     "retrieve_project_context", "step4_initial", "step4_refine", "step5"}

GatewaySteps == {"step1", "step3", "step4_initial", "step4_refine", "step5"}

Positions ==
    {"absent", "unscheduled", "scheduled", "select", "delay", "write_completed",
     "handler", "returned", "raised"} \cup PipelineSteps

\* No submission request made yet.
NoRequest == [code |-> 0, body |-> [detail |-> ""]]

\* No library call under study.
Idle == [op |-> "none"]

Init ==
    /\ row = [t \in Tasks |-> NoRow]
    /\ pc = [t \in Tasks |-> "absent"]
    /\ frame = [t \in Tasks |-> NewFrame]
    /\ http = NoRequest
    /\ background_tasks = [t \in Tasks |-> 0]
    /\ fn = Idle

\* The run of t moves to position p with locals f; the table is not written.
Goto(t, p, f) ==
    /\ pc' = [pc EXCEPT ![t] = p]
    /\ frame' = [frame EXCEPT ![t] = f]
    /\ UNCHANGED <<row, outside>>

\* An exception e leaves the try block of run_evaluation: the frames of
\* _execute_pipeline and below are gone, the except clause holds e.
Handle(t, f, e) == Goto(t, "handler", [Leave(f) EXCEPT !.exc = e])

\* ---------------------------------------------------------- the endpoints

\* uuid4 ids are never issued twice; they are handed out in order here.
Issued == {t \in Tasks : pc[t] # "absent"}

\* t is the id the next created task gets; the clients stop submitting once
\* MaxSubmissions tasks were created.
FreshId(t) ==
    /\ Cardinality(Issued) < MaxSubmissions
    /\ pc[t] = "absent"
    /\ \A u \in Tasks : u < t => pc[u] # "absent"

\* validate_file_format with Markdown among its allowed_extensions.
validate_file_format_md(filename) ==
    Lower(filename.ext) \in {".pdf", ".docx", ".doc", ".txt", ".md"}

\* DocumentProcessor.validate_file_format
validate_file_format(filename) ==
    Lower(filename.ext) \in {".pdf", ".docx", ".doc", ".txt"}

\* An UploadFile: its filename and len(content), in megabytes.
Sizes == {MAX_FILE_SIZE, MAX_FILE_SIZE + 1}
CvUploads == [name : CvNames, size : Sizes]
ReportUploads == [name : ReportNames, size : Sizes]

\* A path given to /evaluate, and what os.path.exists says of it.
CvPaths == [name : CvNames, exists : BOOLEAN]
ReportPaths == [name : ReportNames, exists : BOOLEAN]

\* raise HTTPException(status_code, detail); Accepted: no check raised.
HTTPException(status_code, detail) == [code |-> status_code, detail |-> detail]
Accepted == [code |-> 200, detail |-> ""]

\* /evaluate-direct: the checks made before anything is saved.
evaluate_files_direct_checks(cv_file, project_report) ==
    IF ~validate_file_format(cv_file.name)
      THEN HTTPException(400, "Invalid CV file format. Supported: PDF, DOCX, TXT")
    ELSE IF ~validate_file_format(project_report.name)
      THEN HTTPException(400, "Invalid project report file format. Supported: PDF, DOCX, TXT")
    ELSE IF cv_file.size > MAX_FILE_SIZE
      THEN HTTPException(400, "CV file too large (max 10MB)")
    ELSE IF project_report.size > MAX_FILE_SIZE
      THEN HTTPException(400, "Project report file too large (max 10MB)")
    ELSE Accepted

\* /evaluate: the checks made before the task is created.
create_evaluation_task_checks(cv_file_path, project_report_path) ==
    IF ~cv_file_path.exists THEN HTTPException(404, "CV file not found")
    ELSE IF ~project_report_path.exists
      THEN HTTPException(404, "Project report file not found")
    ELSE Accepted

\* The response of a submission endpoint: the status code and the JSON
\* body (the TaskResponse of a 200, the detail of an HTTPException).
Respond(code, body) == [code |-> code, body |-> body]
Detail(detail) == [detail |-> detail]

\* TaskResponse(id=task.id, status=TaskStatus.QUEUED)
TaskResponse(id) == [id |-> id, status |-> QUEUED]

\* The request ends in an HTTPException raised before db.add: nothing is
\* written and nothing is scheduled.
Reject(e) ==
    /\ http' = Respond(e.code, Detail(e.detail))
    /\ UNCHANGED <<row, pc, frame, background_tasks, fn>>

\* How the tail of a submission handler goes: it runs to its return, or
\* db.commit raises, or db.refresh raises after the commit.
CommitOutcomes == {"returns", "commit raises", "refresh raises"}

\* commit_new_task with add_task moved before the commit.
commit_new_task_schedule_first(t, cv_file_path, project_report_path, outcome) ==
    /\ row' = [row EXCEPT ![t] =
                  IF outcome = "commit raises" THEN NoRow
                  ELSE NewTask(cv_file_path, project_report_path)]
    /\ pc' = [pc EXCEPT ![t] = IF outcome = "commit raises" THEN "absent" ELSE "scheduled"]
    /\ background_tasks' = [background_tasks EXCEPT ![t] = @ + 1]
    /\ http' = IF outcome = "returns" THEN Respond(200, TaskResponse(t))
               ELSE Respond(500, Detail("Failed to create evaluation task: " \o DbErrorMsg))
    /\ UNCHANGED <<frame, fn>>

\* db.add(task); await db.commit(); await db.refresh(task);
\* background_tasks.add_task(pipeline.run_evaluation, task.id);
\* return TaskResponse(id=task.id, status=QUEUED)
\* An exception of commit or refresh ends the request in the 500 handler
\* before add_task; after the commit the row is there all the same.
commit_new_task(t, cv_file_path, project_report_path, outcome) ==
    /\ row' = [row EXCEPT ![t] =
                  IF outcome = "commit raises" THEN NoRow
                  ELSE NewTask(cv_file_path, project_report_path)]
    /\ pc' = [pc EXCEPT ![t] =
                  CASE outcome = "returns" -> "scheduled"
                    [] outcome = "refresh raises" -> "unscheduled"
                    [] outcome = "commit raises" -> "absent"]
    /\ background_tasks' =
          IF outcome = "returns"
          THEN [background_tasks EXCEPT ![t] = @ + 1]
          ELSE background_tasks
    /\ http' = IF outcome = "returns" THEN Respond(200, TaskResponse(t))
               ELSE Respond(500, Detail("Failed to create evaluation task: " \o DbErrorMsg))
    /\ UNCHANGED <<frame, fn>>

\* POST /evaluate-direct
evaluate_files_direct(t) ==
    /\ FreshId(t)
    /\ \E cv_file \in CvUploads, project_report \in ReportUploads :
          LET checked == evaluate_files_direct_checks(cv_file, project_report)
          IN  \/ checked # Accepted /\ Reject(checked)
              \/ /\ checked = Accepted
                 /\ Reject(HTTPException(500, "Failed to upload and evaluate files"))
              \/ /\ checked = Accepted
                 /\ \E outcome \in CommitOutcomes :
                       commit_new_task(t, cv_file.name, project_report.name, outcome)

\* POST /evaluate
create_evaluation_task(t) ==
    /\ FreshId(t)
    /\ \E cv_file_path \in CvPaths, project_report_path \in ReportPaths :
          LET checked == create_evaluation_task_checks(cv_file_path, project_report_path)
          IN  \/ checked # Accepted /\ Reject(checked)
              \/ /\ checked = Accepted
                 /\ \E outcome \in CommitOutcomes :
                       commit_new_task(t, cv_file_path.name, project_report_path.name, outcome)

\* get_evaluation_result without its "if not task" check.
get_evaluation_result_response_unchecked(r) ==
    [code |-> 200, status |-> r.status,
     result |-> IF r.status = COMPLETED /\ r.result # Null THEN r.result ELSE Null,
     error |-> IF r.status = COMPLETED /\ r.result # Null THEN Null
               ELSE IF r.status = FAILED /\ r.error_message \notin {Null, Some("")}
                 THEN r.error_message
               ELSE Null]

\* TaskResultResponse(**response_data) of GET /result/{task_id}: the
\* result is put in when the status is COMPLETED and task.result is truthy,
\* else the error when the status is FAILED and task.error_message is truthy
\* (an empty message is not).
get_evaluation_result_response(r) ==
    IF r = NoRow THEN [code |-> 404, detail |-> "Task not found"]
    ELSE [code |-> 200, status |-> r.status,
          result |-> IF r.status = COMPLETED /\ r.result # Null THEN r.result ELSE Null,
          error |-> IF r.status = COMPLETED /\ r.result # Null THEN Null
                    ELSE IF r.status = FAILED /\ r.error_message \notin {Null, Some("")}
                      THEN r.error_message
                    ELSE Null]

\* GET /result/{task_id}: a select and nothing else.
get_evaluation_result(t) ==
    /\ pc[t] # "absent"
    /\ get_evaluation_result_response(row[t]).code \in {200, 404}
    /\ UNCHANGED vars

\* GET /tasks: the ids of the rows the select returns.
list_tasks_response(table) == {t \in DOMAIN table : table[t] # NoRow}

list_tasks ==
    /\ list_tasks_response(row) \subseteq Tasks
    /\ UNCHANGED vars

\* What os.path.exists and os.remove do in a DELETE request: both files
\* are there and are removed, a file is missing, or os.remove raises.
FileStates == {"removed", "missing", "remove raises"}

\* DELETE /task/{task_id} on row r: 404 without a row; the files are
\* removed inside try / except Exception (a warning is logged), then
\* db.delete(task); db.commit().
delete_task_result(r, files) ==
    IF r = NoRow THEN [code |-> 404, row |-> NoRow]
    ELSE [code |-> 200, row |-> NoRow]

delete_task(t) ==
    /\ row[t] # NoRow
    /\ \E files \in FileStates :
          row' = [row EXCEPT ![t] = delete_task_result(row[t], files).row]
    /\ UNCHANGED <<pc, frame, outside>>

\* ---------------------------------------------------------- run_evaluation

\* run_evaluation_processing with the update left to the end of the run.
run_evaluation_processing_deferred(t) ==
    /\ pc[t] = "scheduled"
    /\ Goto(t, "select", frame[t])

\* update(..).values(status=PROCESSING); commit. The driver may raise, and
\* then nothing is written and the except clause runs.
run_evaluation_processing(t) ==
    /\ pc[t] = "scheduled"
    /\ \/ /\ row' = [row EXCEPT ![t] = UpdateProcessing(row[t])]
          /\ pc' = [pc EXCEPT ![t] = "select"]
          /\ UNCHANGED <<frame, outside>>
       \/ Handle(t, frame[t], Exc("OperationalError", DbErrorMsg, "processing"))

\* select(EvaluationTask).where(id == task_id); if not task: raise ValueError
run_evaluation_select(t) ==
    /\ pc[t] = "select"
    /\ \/ /\ row[t] # NoRow
          /\ Goto(t, "delay",
                  [frame[t] EXCEPT !.task =
                      [cv_file_path |-> row[t].cv_file_path,
                       project_report_path |-> row[t].project_report_path]])
       \/ /\ row[t] = NoRow
          /\ Handle(t, frame[t], Exc("ValueError", "Task not found", "select"))
       \/ Handle(t, frame[t], Exc("OperationalError", DbErrorMsg, "select"))

\* _simulate_processing_delay: sleep, then raise one of failure_types with
\* probability 0.05.
simulate_processing_delay(t) ==
    /\ pc[t] = "delay"
    /\ \/ Goto(t, "extract_cv", frame[t])
       \/ \E m \in SimulatedFailures : Handle(t, frame[t], Exc("Exception", m, "delay"))

\* cv_text = await extract_text_from_file(task.cv_file_path)
extract_cv_text(t) ==
    /\ pc[t] = "extract_cv"
    /\ LET cv_text == extract_text_from_file(frame[t].task.cv_file_path, "extract_cv")
       IN  \/ cv_text.raised /\ Handle(t, frame[t], cv_text.exc)
           \/ ~cv_text.raised /\ Goto(t, "extract_project", frame[t])
           \/ /\ ~cv_text.raised
              /\ \E e \in ExtractionErrors :
                    Handle(t, frame[t], Exc(e.type, e.msg, "extract_cv"))

\* project_text = await extract_text_from_file(task.project_report_path)
extract_project_text(t) ==
    /\ pc[t] = "extract_project"
    /\ LET project_text ==
               extract_text_from_file(frame[t].task.project_report_path, "extract_project")
       IN  \/ project_text.raised /\ Handle(t, frame[t], project_text.exc)
           \/ ~project_text.raised /\ Goto(t, "step1", frame[t])
           \/ /\ ~project_text.raised
              /\ \E e \in ExtractionErrors :
                    Handle(t, frame[t], Exc(e.type, e.msg, "extract_project"))

\* One attempt of generate_content_async made at step `at` with locals f and
\* service outcome o: tenacity repeats the call (retry), or the call ends
\* and hands `result` (the text returned or RetryError raised) to the caller.
Gateway(f, o, at) ==
    LET h == [f EXCEPT !.last_attempt = o]
        d == generate_content_async(f.attempt, o)
    IN  CASE d = "retry" ->
                [retry |-> TRUE,
                 frame |-> [h EXCEPT !.attempt = @ + 1,
                                     !.waits = Append(@, wait_exponential(f.attempt))],
                 result |-> Unset]
          [] d = "raise" ->
                [retry |-> FALSE, frame |-> [h EXCEPT !.attempt = 1, !.waits = <<>>],
                 result |-> Raise(RetryError(o, at))]
          [] d = "return" ->
                [retry |-> FALSE, frame |-> [h EXCEPT !.attempt = 1, !.waits = <<>>],
                 result |-> Return(o)]

\* What a call of retrieve_context in the pipeline does: it returns the
\* documents it found, or something raises inside its try block and its
\* except Exception clause returns the empty list.
StoreOutcomes == {"returns", "raises"}

retrieve_context_guarded(found, outcome) ==
    IF outcome = "raises" THEN <<>> ELSE found

\* What the three retrievals of _execute_pipeline find in the documents of
\* _populate_initial_data (ids in order of score).
JobContext == <<"job_desc_backend">>
CvContext == <<"scoring_rubric_cv">>
ProjectContext == <<"scoring_rubric_project", "scoring_rubric_cv">>

\* "\n\n".join([doc["content"] for doc in ..]), by the ids of the documents
Joined(docs) == [documents |-> docs]

\* Step 1: cv_data = await extract_cv_structure(cv_text).
after_extract_cv_structure(t, f, g) ==
    IF g.raised THEN Handle(t, f, g.exc)
    ELSE LET r == extract_cv_structure(g.value)
             h == [f EXCEPT !.profile_not_json = (g.value.kind = "text")]
         IN  IF r.raised THEN Handle(t, h, r.exc)
             ELSE Goto(t, "retrieve_cv_context", [h EXCEPT !.cv_data = r.value])

step_extract_cv_structure(t) ==
    /\ pc[t] = "step1"
    /\ \E o \in ServiceOutcomes(ProfileResponses) :
           LET a == Gateway(frame[t], o, "step1")
           IN  IF a.retry THEN Goto(t, "step1", a.frame)
               ELSE after_extract_cv_structure(t, a.frame, a.result)

\* Step 2: job_context and cv_context are retrieved and joined into
\* combined_cv_context.
retrieve_cv_context(t) ==
    /\ pc[t] = "retrieve_cv_context"
    /\ \E job, cv \in StoreOutcomes :
          Goto(t, "step3",
               [frame[t] EXCEPT !.context =
                   Joined(retrieve_context_guarded(JobContext, job)
                          \o retrieve_context_guarded(CvContext, cv))])

\* after_evaluate_cv_match with the project request issued before its
\* retrieval.
after_evaluate_cv_match_request_first(t, f, g) ==
    IF g.raised THEN Handle(t, f, g.exc)
    ELSE LET r == evaluate_cv_match(g.value)
         IN  IF r.raised THEN Handle(t, f, r.exc)
             ELSE Goto(t, "step4_initial",
                       [f EXCEPT !.cv = r.value, !.cv_data = Unset, !.context = Unset])

\* Step 3: cv_match_rate, cv_feedback, cv_evaluation = await evaluate_cv_match
\* (cv_data is not read again after this call).
after_evaluate_cv_match(t, f, g) ==
    IF g.raised THEN Handle(t, f, g.exc)
    ELSE LET r == evaluate_cv_match(g.value)
         IN  IF r.raised THEN Handle(t, f, r.exc)
             ELSE Goto(t, "retrieve_project_context",
                       [f EXCEPT !.cv = r.value, !.cv_data = Unset, !.context = Unset])

step_evaluate_cv_match(t) ==
    /\ pc[t] = "step3"
    /\ \E o \in ServiceOutcomes(CvResponses) :
           LET a == Gateway(frame[t], o, "step3")
           IN  IF a.retry THEN Goto(t, "step3", a.frame)
               ELSE after_evaluate_cv_match(t, a.frame, a.result)

\* Step 4: project_context is retrieved and joined into project_rubric.
retrieve_project_context(t) ==
    /\ pc[t] = "retrieve_project_context"
    /\ \E project \in StoreOutcomes :
          Goto(t, "step4_initial",
               [frame[t] EXCEPT !.context =
                   Joined(retrieve_context_guarded(ProjectContext, project))])

\* after_project_initial with a retry of its own: an initial answer that
\* is not JSON makes the orchestrator issue the initial request again.
after_project_initial_again(t, f, g) ==
    IF g.raised THEN Handle(t, f, g.exc)
    ELSE IF project_initial_parses(g.value)
      THEN Goto(t, "step4_refine", [f EXCEPT !.initial_data = g.value, !.context = Unset])
      ELSE Goto(t, "step4_initial", f)

\* Step 4, evaluate_project_report up to the second generate_content_async
\* (scoring_rubric is read by the initial prompt only).
after_project_initial(t, f, g) ==
    IF g.raised THEN Handle(t, f, g.exc)
    ELSE IF project_initial_parses(g.value)
      THEN Goto(t, "step4_refine", [f EXCEPT !.initial_data = g.value, !.context = Unset])
      ELSE Goto(t, "step5", [f EXCEPT !.proj = DefaultProject, !.context = Unset])

step_project_initial(t) ==
    /\ pc[t] = "step4_initial"
    /\ \E o \in ServiceOutcomes(InitialResponses) :
           LET a == Gateway(frame[t], o, "step4_initial")
           IN  IF a.retry THEN Goto(t, "step4_initial", a.frame)
               ELSE after_project_initial(t, a.frame, a.result)

\* after_project_refined returning what the initial answer said: the
\* refined answer is parsed and then dropped.
after_project_refined_initial(t, f, g) ==
    IF g.raised THEN Handle(t, f, g.exc)
    ELSE LET r == evaluate_project_refined(g.value)
             d == f.initial_data
         IN  IF r.raised THEN Handle(t, f, r.exc)
             ELSE Goto(t, "step5",
                       [f EXCEPT !.proj = IF d.kind = "object" /\ r.value # DefaultProject
                                            THEN Evaluation(d.value, d.feedback, d.sub)
                                            ELSE r.value,
                                 !.initial_data = Unset])

\* Step 4, the refinement call and the return of evaluate_project_report.
after_project_refined(t, f, g) ==
    IF g.raised THEN Handle(t, f, g.exc)
    ELSE LET r == evaluate_project_refined(g.value)
         IN  IF r.raised THEN Handle(t, f, r.exc)
             ELSE Goto(t, "step5", [f EXCEPT !.proj = r.value, !.initial_data = Unset])

step_project_refined(t) ==
    /\ pc[t] = "step4_refine"
    /\ \E o \in ServiceOutcomes(RefinedResponses) :
           LET a == Gateway(frame[t], o, "step4_refine")
           IN  IF a.retry THEN Goto(t, "step4_refine", a.frame)
               ELSE after_project_refined(t, a.frame, a.result)

\* Step 5: generate_overall_summary catches every Exception of the gateway;
\* then EvaluationResult(..) is built and _execute_pipeline returns it.
generate_overall_summary(g) ==
    IF g.raised THEN GenericSummary ELSE g.value.body

after_overall_summary(t, f, g) ==
    LET res == EvaluationResult(f.cv, f.proj, generate_overall_summary(g))
    IN  IF res.raised THEN Handle(t, f, res.exc)
        ELSE Goto(t, "write_completed", [Leave(f) EXCEPT !.evaluation_result = res.value])

step_generate_overall_summary(t) ==
    /\ pc[t] = "step5"
    /\ \E o \in ServiceOutcomes(SummaryResponses) :
           LET a == Gateway(frame[t], o, "step5")
           IN  IF a.retry THEN Goto(t, "step5", a.frame)
               ELSE after_overall_summary(t, a.frame, a.result)

\* run_evaluation_completed with a statement that raises placed after the
\* commit, still inside the try block: the except clause runs on a
\* Completed row.
run_evaluation_completed_then_raises(t) ==
    /\ pc[t] = "write_completed"
    /\ row' = [row EXCEPT ![t] = UpdateCompleted(row[t], frame[t].evaluation_result)]
    /\ pc' = [pc EXCEPT ![t] = "handler"]
    /\ frame' = [frame EXCEPT ![t] =
                    [Leave(@) EXCEPT !.exc = Exc("Exception", "raised after commit", "completed")]]
    /\ UNCHANGED outside

\* update(..).values(status=COMPLETED, result=..); commit; the function
\* returns. If the driver raises, nothing is written and the except clause
\* runs.
run_evaluation_completed(t) ==
    /\ pc[t] = "write_completed"
    /\ \/ /\ row' = [row EXCEPT ![t] = UpdateCompleted(row[t], frame[t].evaluation_result)]
          /\ pc' = [pc EXCEPT ![t] = "returned"]
          /\ frame' = [frame EXCEPT ![t] = [@ EXCEPT !.evaluation_result = Unset]]
          /\ UNCHANGED outside
       \/ Handle(t, frame[t], Exc("OperationalError", DbErrorMsg, "completed"))

\* run_evaluation_failed with the where clause of its update left out.
run_evaluation_failed_all_rows(t) ==
    /\ pc[t] = "handler"
    /\ row' = [u \in Tasks |-> UpdateFailed(row[u], frame[t].exc.msg)]
    /\ pc' = [pc EXCEPT ![t] = "raised"]
    /\ UNCHANGED <<frame, outside>>

\* except Exception as e: update(..).values(status=FAILED,
\* error_message=str(e)); commit; raise. If the driver raises here, nothing
\* is written and that exception leaves run_evaluation instead of e.
run_evaluation_failed(t) ==
    /\ pc[t] = "handler"
    /\ \/ /\ row' = [row EXCEPT ![t] = UpdateFailed(row[t], frame[t].exc.msg)]
          /\ pc' = [pc EXCEPT ![t] = "raised"]
          /\ UNCHANGED <<frame, outside>>
       \/ Goto(t, "raised",
               [frame[t] EXCEPT !.exc = Exc("OperationalError", DbErrorMsg, "handler")])

\* ------------------------------------------------------------ specification

Next ==
    \/ list_tasks
    \/ \E t \in Tasks :
        \/ evaluate_files_direct(t)
        \/ create_evaluation_task(t)
        \/ get_evaluation_result(t)
        \/ delete_task(t)
        \/ run_evaluation_processing(t)
        \/ run_evaluation_select(t)
        \/ simulate_processing_delay(t)
        \/ extract_cv_text(t)
        \/ extract_project_text(t)
        \/ step_extract_cv_structure(t)
        \/ retrieve_cv_context(t)
        \/ step_evaluate_cv_match(t)
        \/ retrieve_project_context(t)
        \/ step_project_initial(t)
        \/ step_project_refined(t)
        \/ step_generate_overall_summary(t)
        \/ run_evaluation_completed(t)
        \/ run_evaluation_failed(t)

Spec == Init /\ [][Next]_vars

\* The steps of the run of t. The background-task runner starts every
\* scheduled run, and every await of a run returns or raises.
run_evaluation(t) ==
    \/ run_evaluation_processing(t)
    \/ run_evaluation_select(t)
    \/ simulate_processing_delay(t)
    \/ extract_cv_text(t)
    \/ extract_project_text(t)
    \/ step_extract_cv_structure(t)
    \/ retrieve_cv_context(t)
    \/ step_evaluate_cv_match(t)
    \/ retrieve_project_context(t)
    \/ step_project_initial(t)
    \/ step_project_refined(t)
    \/ step_generate_overall_summary(t)
    \/ run_evaluation_completed(t)
    \/ run_evaluation_failed(t)

FairSpec == Spec /\ \A t \in Tasks : WF_vars(run_evaluation(t))

\* ------------------------------------------------- runs side by side

\* MaxRunning tasks were submitted through /evaluate-direct and their runs
\* are scheduled; the event loop interleaves them at their awaits, and the
\* clients poll and delete meanwhile.
Running == {t \in Tasks : t <= MaxRunning}

ConcInit ==
    /\ row = [t \in Tasks |->
                IF t \in Running
                THEN NewTask(FileName("cv", ".pdf"), FileName("report", ".DOCX"))
                ELSE NoRow]
    /\ pc = [t \in Tasks |-> IF t \in Running THEN "scheduled" ELSE "absent"]
    /\ frame = [t \in Tasks |-> NewFrame]
    /\ http = Respond(200, TaskResponse(MaxRunning))
    /\ background_tasks = [t \in Tasks |-> IF t \in Running THEN 1 ELSE 0]
    /\ fn = Idle

\* In these runs the generation service answers every request at the
\* first attempt with the well-formed answer of the step and the context
\* store returns its documents; what fails is the database driver, the file
\* readers and the simulated fault.
WellFormed ==
    { ProfileObject(ProfileRequired \cup {"years_of_experience"}, TRUE),
      ScoreObject(CvKeys, 7, 4, TRUE),
      ScoreObject(ProjectKeys, 6, 2, TRUE),
      ScoreObject(ProjectKeys, 8, 4, TRUE),
      [kind |-> "text", body |-> "Strong backend candidate; recommend hire."] }

Answered_well(t) == frame'[t].last_attempt \in WellFormed

\* ... and the context store returns the documents it has.
Retrieved(t) ==
    frame'[t].context \in {Joined(JobContext \o CvContext), Joined(ProjectContext)}

ConcNext ==
    \E t \in Tasks :
        \/ get_evaluation_result(t)
        \/ delete_task(t)
        \/ run_evaluation_processing(t)
        \/ run_evaluation_select(t)
        \/ simulate_processing_delay(t)
        \/ extract_cv_text(t)
        \/ extract_project_text(t)
        \/ step_extract_cv_structure(t) /\ Answered_well(t)
        \/ retrieve_cv_context(t) /\ Retrieved(t)
        \/ step_evaluate_cv_match(t) /\ Answered_well(t)
        \/ retrieve_project_context(t) /\ Retrieved(t)
        \/ step_project_initial(t) /\ Answered_well(t)
        \/ step_project_refined(t) /\ Answered_well(t)
        \/ step_generate_overall_summary(t) /\ Answered_well(t)
        \/ run_evaluation_completed(t)
        \/ run_evaluation_failed(t)

ConcSpec == ConcInit /\ [][ConcNext]_vars

\* ------------------------------------------ run_evaluation called once more

\* The rows run_evaluation leaves behind when it ends: Completed with a
\* result, or Failed with the message of the exception.
FinishedRows ==
    LET queued == NewTask(FileName("cv", ".pdf"), FileName("report", ".DOCX"))
        res == EvaluationResult(Evaluation(7, "model feedback", 4),
                                Evaluation(8, "model feedback", 4),
                                GenericSummary)
    IN  { UpdateCompleted(UpdateProcessing(queued), res.value) }
          \cup { UpdateFailed(UpdateProcessing(queued), "Temporary service unavailable") }

\* run_evaluation(task_id) is called for tasks whose earlier run has ended.
RerunInit ==
    /\ row \in [Tasks -> FinishedRows \cup {NoRow}]
    /\ \A t \in Tasks : row[t] # NoRow <=> t \in Running
    /\ pc = [t \in Tasks |-> IF t \in Running THEN "scheduled" ELSE "absent"]
    /\ frame = [t \in Tasks |-> NewFrame]
    /\ http = Respond(200, TaskResponse(MaxRunning))
    /\ background_tasks = [t \in Tasks |-> IF t \in Running THEN 1 ELSE 0]
    /\ fn = Idle

RerunSpec == RerunInit /\ [][ConcNext]_vars

\* ------------------------------------------- the formats of the file names

\* A file name as a string: a sequence of pieces, each a word, the dot or
\* the path separator.
NameWords == {"cv", "pdf", "PDF", "Docx", "doc", "txt", "md"}
NamePieces == NameWords \cup {".", "/"}

\* The longest name, in pieces.
MaxNameLen == 4

Names == UNION {[1..n -> NamePieces] : n \in 1..MaxNameLen}

\* str.rfind: the last index at which piece c occurs in p, 0 when it does
\* not occur (Python's -1).
rfind(p, c) ==
    LET at == {i \in 1..Len(p) : p[i] = c}
    IN  IF at = {} THEN 0 ELSE CHOOSE i \in at : \A j \in at : j <= i

\* os.path.splitext: the extension starts at the last dot, when that dot
\* is after the last separator and some piece of the last component before
\* it is not a dot; otherwise the extension is empty.
splitext(p) ==
    LET sepIndex == rfind(p, "/")
        dotIndex == rfind(p, ".")
    IN  IF /\ dotIndex > sepIndex
           /\ \E i \in (sepIndex + 1)..(dotIndex - 1) : p[i] # "."
        THEN <<SubSeq(p, 1, dotIndex - 1), SubSeq(p, dotIndex, Len(p))>>
        ELSE <<p, <<>>>>

\* The pieces of a string written one after the other.
RECURSIVE Joined_pieces(_)
Joined_pieces(p) ==
    IF p = <<>> THEN "" ELSE Head(p) \o Joined_pieces(Tail(p))

\* What the two functions make of a name: os.path.splitext(name).
SplitName(p) ==
    FileName(Joined_pieces(splitext(p)[1]), Joined_pieces(splitext(p)[2]))

FormatInit ==
    /\ row = [t \in Tasks |-> NoRow]
    /\ pc = [t \in Tasks |-> "absent"]
    /\ frame = [t \in Tasks |-> NewFrame]
    /\ http = NoRequest
    /\ background_tasks = [t \in Tasks |-> 0]
    /\ \E name \in Names :
         fn = [op |-> "format", name |-> name, done |-> FALSE,
               valid |-> FALSE, text |-> Return("")]

\* validate_file_format(name) and extract_text_from_file(name) are called.
check_format ==
    /\ fn.op = "format"
    /\ ~fn.done
    /\ fn' = [fn EXCEPT !.done = TRUE,
                        !.valid = validate_file_format(SplitName(fn.name)),
                        !.text = extract_text_from_file(SplitName(fn.name), "extract_cv")]
    /\ UNCHANGED <<row, pc, frame, http, background_tasks>>

FormatNext == check_format

FormatSpec == FormatInit /\ [][FormatNext]_vars

\* ------------------------------------------------ the files of the tasks

\* The paths given to /evaluate: create_evaluation_task stores the paths
\* of the request as they are, so two tasks can name the same file.
SharedCvPaths == {FileName("cv", ".pdf"), FileName("cv_b", ".pdf")}
SharedReportPaths == {FileName("report", ".DOCX")}

\* The upload directory: the set of paths at which a file exists.
Disk(files) == [op |-> "disk", files |-> files]

\* Tasks created through /evaluate, whose handler found every path with
\* os.path.exists; their runs are scheduled.
SharedInit ==
    /\ \E cv \in [Running -> SharedCvPaths], report \in [Running -> SharedReportPaths] :
          /\ row = [t \in Tasks |->
                      IF t \in Running THEN NewTask(cv[t], report[t]) ELSE NoRow]
          /\ fn = Disk({cv[t] : t \in Running} \cup {report[t] : t \in Running})
    /\ pc = [t \in Tasks |-> IF t \in Running THEN "scheduled" ELSE "absent"]
    /\ frame = [t \in Tasks |-> NewFrame]
    /\ http = Respond(200, TaskResponse(MaxRunning))
    /\ background_tasks = [t \in Tasks |-> IF t \in Running THEN 1 ELSE 0]

\* How the removal of the two files goes: both os.remove calls return, or
\* the first or the second one made raises (the except clause logs a
\* warning and the request goes on).
RemoveOutcomes == {"removed", "first raises", "second raises"}

\* if os.path.exists(cv_file_path): os.remove(cv_file_path)
\* if os.path.exists(project_report_path): os.remove(project_report_path)
remove_files(files, cv_file_path, project_report_path, outcome) ==
    LET present == <<cv_file_path, project_report_path>>
        calls == SelectSeq(present, LAMBDA p : p \in files)
    IN  CASE outcome = "removed" -> files \ {cv_file_path, project_report_path}
          [] outcome = "first raises" -> files
          [] outcome = "second raises" ->
                IF Len(calls) = 2 /\ calls[1] # calls[2] THEN files \ {calls[1]}
                ELSE files \ {cv_file_path, project_report_path}

\* DELETE /task/{task_id} with its files: the row is selected, the files
\* it names are removed, the row is deleted and the delete committed.
delete_task_and_files(t) ==
    /\ row[t] # NoRow
    /\ \E outcome \in RemoveOutcomes :
          fn' = Disk(remove_files(fn.files, row[t].cv_file_path,
                                  row[t].project_report_path, outcome))
    /\ row' = [row EXCEPT ![t] = delete_task_result(row[t], "removed").row]
    /\ UNCHANGED <<pc, frame, http, background_tasks>>

\* extract_text_from_file on the disk: the reader the extension selects
\* opens the path, and raises when no file is there.
extract_text_from_disk(file_path, at) ==
    LET text == extract_text_from_file(file_path, at)
    IN  IF text.raised \/ file_path \in fn.files THEN text
        ELSE Raise(Exc("FileNotFoundError", "No such file or directory", at))

\* cv_text = await extract_text_from_file(task.cv_file_path)
extract_cv_text_from_disk(t) ==
    /\ pc[t] = "extract_cv"
    /\ LET cv_text == extract_text_from_disk(frame[t].task.cv_file_path, "extract_cv")
       IN  IF cv_text.raised THEN Handle(t, frame[t], cv_text.exc)
           ELSE Goto(t, "extract_project", frame[t])

\* project_text = await extract_text_from_file(task.project_report_path)
extract_project_text_from_disk(t) ==
    /\ pc[t] = "extract_project"
    /\ LET project_text ==
               extract_text_from_disk(frame[t].task.project_report_path, "extract_project")
       IN  IF project_text.raised THEN Handle(t, frame[t], project_text.exc)
           ELSE Goto(t, "step1", frame[t])

\* The requests and the runs of ConcSpec with the files on the disk.
SharedNext ==
    \E t \in Tasks :
        \/ delete_task_and_files(t)
        \/ run_evaluation_processing(t)
        \/ run_evaluation_select(t)
        \/ simulate_processing_delay(t)
        \/ extract_cv_text_from_disk(t)
        \/ extract_project_text_from_disk(t)
        \/ step_extract_cv_structure(t) /\ Answered_well(t)
        \/ retrieve_cv_context(t) /\ Retrieved(t)
        \/ step_evaluate_cv_match(t) /\ Answered_well(t)
        \/ retrieve_project_context(t) /\ Retrieved(t)
        \/ step_project_initial(t) /\ Answered_well(t)
        \/ step_project_refined(t) /\ Answered_well(t)
        \/ step_generate_overall_summary(t) /\ Answered_well(t)
        \/ run_evaluation_completed(t)
        \/ run_evaluation_failed(t)

SharedSpec == SharedInit /\ [][SharedNext]_vars

\* ------------------------------------------- a run blocked in a gateway call

\* generate_content called on the event loop thread itself: a task inside
\* a gateway call holds the thread until the call returns.
OnLoopThread_direct == {t \in Tasks : pc[t] \in GatewaySteps}

\* The tasks that hold the event loop thread between two steps.
\* generate_content_async awaits loop.run_in_executor(None, ..):
\* model.generate_content runs on a worker thread of the default executor
\* and the coroutine is suspended, so a task inside a gateway call does not
\* hold the event loop thread; nor does a task at any other await.
OnLoopThread == {}

\* The event loop can resume t.
LoopRuns(t) == OnLoopThread \subseteq {t}

\* The runs of ConcSpec as the event loop resumes them.
BlockedNext ==
    \E t \in Tasks :
        \/ LoopRuns(t) /\ run_evaluation_processing(t)
        \/ LoopRuns(t) /\ run_evaluation_select(t)
        \/ LoopRuns(t) /\ simulate_processing_delay(t)
        \/ LoopRuns(t) /\ extract_cv_text(t)
        \/ LoopRuns(t) /\ extract_project_text(t)
        \/ LoopRuns(t) /\ step_extract_cv_structure(t) /\ Answered_well(t)
        \/ LoopRuns(t) /\ retrieve_cv_context(t) /\ Retrieved(t)
        \/ LoopRuns(t) /\ step_evaluate_cv_match(t) /\ Answered_well(t)
        \/ LoopRuns(t) /\ retrieve_project_context(t) /\ Retrieved(t)
        \/ LoopRuns(t) /\ step_project_initial(t) /\ Answered_well(t)
        \/ LoopRuns(t) /\ step_project_refined(t) /\ Answered_well(t)
        \/ LoopRuns(t) /\ step_generate_overall_summary(t) /\ Answered_well(t)
        \/ LoopRuns(t) /\ run_evaluation_completed(t)
        \/ LoopRuns(t) /\ run_evaluation_failed(t)

\* The first task is the task whose gateway call may never return: nothing is
\* assumed of its steps. Every other run goes on whenever the event loop
\* can resume it.
BlockedTask == CHOOSE t \in Running : \A u \in Running : t <= u

BlockedSpec ==
    /\ ConcInit
    /\ [][BlockedNext]_vars
    /\ \A t \in Running \ {BlockedTask} : WF_vars(LoopRuns(t) /\ run_evaluation(t))

\* ------------------------------------------- the context store on its own

\* A stored document: its content and its type (the category is carried
\* along and never read).
StoredDocument(content, type) == [content |-> content, type |-> type]

\* self.documents, in insertion order.
Stores ==
    { << StoredDocument(<<"a", "b", " ", "c">>, "scoring_rubric"),
         StoredDocument(<<"c", " ", "a">>, "job_description"),
         StoredDocument(<<"A", "b", "c">>, "scoring_rubric"),
         StoredDocument(<<"b">>, "scoring_rubric") >>,
      << StoredDocument(<<"b">>, "job_description"),
         StoredDocument(<<"A", "B", "c">>, "scoring_rubric"),
         StoredDocument(<<"c", "a">>, "job_description") >> }

Queries ==
    { <<>>,
      <<"z">>,
      <<"a">>,
      <<"A", " ", "b">>,
      <<"b", "c", " ", "A", "B">>,
      <<" ", "c", " ", " ", "c", " ">>,
      <<"a", "b", "c", "\n", "b", " ", "z">> }

ContextTypes == {Null, Some("job_description"), Some("scoring_rubric")}

RetrieveInit ==
    /\ row = [t \in Tasks |-> NoRow]
    /\ pc = [t \in Tasks |-> "absent"]
    /\ frame = [t \in Tasks |-> NewFrame]
    /\ http = NoRequest
    /\ background_tasks = [t \in Tasks |-> 0]
    /\ \E documents \in Stores, query \in Queries, context_type \in ContextTypes,
          n_results \in 0..MaxResults :
         fn = [op |-> "retrieve_context", documents |-> documents, query |-> query,
               context_type |-> context_type, n_results |-> n_results,
               done |-> FALSE, result |-> <<>>]

\* The call returns.
retrieve_context_returns ==
    /\ fn.op = "retrieve_context"
    /\ ~fn.done
    /\ fn' = [fn EXCEPT !.done = TRUE, !.result =
                 retrieve_context(fn.documents, fn.query, fn.context_type, fn.n_results)]
    /\ UNCHANGED <<row, pc, frame, http, background_tasks>>

RetrieveNext == retrieve_context_returns

RetrieveSpec == RetrieveInit /\ [][RetrieveNext]_vars

\* --------------------------------------- the structured steps on their own

\* The responses the steps are tried on: a document alone, a document
\* between fences (tagged or not, with blanks or newlines inside and
\* outside the fences), a document after a fence that is never closed, and
\* a tag in capitals.
Padding == {<<>>, <<" ">>, <<"\n">>}

Fenced(opening, inner_left, document, inner_right) ==
    opening \o inner_left \o document \o inner_right \o Fence

Responses(document) ==
    { left \o document \o right : left \in Padding, right \in Padding }
    \cup { left \o Fenced(opening, il, document, ir) \o right :
             opening \in {Fence, FenceJson}, il \in Padding, ir \in Padding,
             left \in {<<>>, <<"\n">>}, right \in {<<>>, <<"\n">>} }
    \cup { FenceJson \o <<"\n">> \o document,
           Fence \o <<"J", "S", "O", "N", "\n">> \o document \o <<"\n">> \o Fence }

ParseInit ==
    /\ row = [t \in Tasks |-> NoRow]
    /\ pc = [t \in Tasks |-> "absent"]
    /\ frame = [t \in Tasks |-> NewFrame]
    /\ http = NoRequest
    /\ background_tasks = [t \in Tasks |-> 0]
    /\ \E step \in StructuredSteps :
         \E d \in Documents(step) :
           \E response \in Responses(d.text) :
             fn = [op |-> "structured_step", step |-> step, response |-> response,
                   done |-> FALSE, result |-> Unset]

\* The step reads the response.
read_response ==
    /\ fn.op = "structured_step"
    /\ ~fn.done
    /\ fn' = [fn EXCEPT !.done = TRUE, !.result = structured_step(fn.step, fn.response)]
    /\ UNCHANGED <<row, pc, frame, http, background_tasks>>

ParseNext == read_response

ParseSpec == ParseInit /\ [][ParseNext]_vars

\* ----------------------------------- generate_overall_summary on its own

\* A value as json.loads made it and as evaluate_cv_match hands it on
\* unchanged: its Python type and, for a number or a numeric string, its
\* value (in tenths for a rate).
JsonValue(type, value) == [type |-> type, value |-> value]

\* cv_match_rate: 0.7, 1.5, the fallback 0.5, the string "0.7", None
MatchRates ==
    { JsonValue("float", 7), JsonValue("float", 15), JsonValue("float", DefaultRate),
      JsonValue("str", 7), JsonValue("NoneType", 0) }

\* project_score: 8, the string "8"
ProjectScores == { JsonValue("float", 8), JsonValue("str", 8) }

Feedbacks == {"model feedback", "Unable to evaluate CV properly"}

\* format(value, ".2f"), as the f-string of the prompt calls it
format_2f(value) ==
    IF value.type \in {"float", "int", "bool"} THEN Return("0.00")
    ELSE IF value.type = "str"
      THEN Raise(Exc("ValueError", "Unknown format code 'f' for object of type 'str'", "step5"))
    ELSE Raise(Exc("TypeError",
                   "unsupported format string passed to " \o value.type \o ".__format__",
                   "step5"))

\* prompt = f"... {cv_match_rate:.2f} ... {project_score}/10 ...", built
\* before the try block of generate_overall_summary; project_score and the
\* feedbacks are formatted with str(), which takes any value.
summary_prompt(cv_feedback, project_feedback, cv_match_rate, project_score) ==
    format_2f(cv_match_rate)

SummaryInit ==
    /\ row = [t \in Tasks |-> NoRow]
    /\ pc = [t \in Tasks |-> "absent"]
    /\ frame = [t \in Tasks |-> NewFrame]
    /\ http = NoRequest
    /\ background_tasks = [t \in Tasks |-> 0]
    /\ \E cv_feedback \in Feedbacks, project_feedback \in Feedbacks,
          cv_match_rate \in MatchRates, project_score \in ProjectScores :
         fn = [op |-> "generate_overall_summary",
               cv_feedback |-> cv_feedback, project_feedback |-> project_feedback,
               cv_match_rate |-> cv_match_rate, project_score |-> project_score,
               at |-> "prompt", attempt |-> 1, waits |-> <<>>,
               last_attempt |-> NoAttempt, done |-> FALSE, result |-> Return("")]

\* The function is entered and builds its prompt.
generate_overall_summary_prompt ==
    /\ fn.op = "generate_overall_summary"
    /\ fn.at = "prompt"
    /\ ~fn.done
    /\ LET prompt == summary_prompt(fn.cv_feedback, fn.project_feedback,
                                    fn.cv_match_rate, fn.project_score)
       IN  fn' = IF prompt.raised
                 THEN [fn EXCEPT !.done = TRUE, !.result = prompt]
                 ELSE [fn EXCEPT !.at = "try"]
    /\ UNCHANGED <<row, pc, frame, http, background_tasks>>

\* try: return await self.generate_content_async(prompt, temperature=0.3)
\* except Exception: return the generic sentence. One attempt per step.
generate_overall_summary_attempt ==
    /\ fn.op = "generate_overall_summary"
    /\ fn.at = "try"
    /\ ~fn.done
    /\ \E o \in ServiceOutcomes(SummaryResponses) :
          LET a == Gateway(fn, o, "step5")
          IN  fn' = IF a.retry THEN a.frame
                    ELSE [a.frame EXCEPT !.done = TRUE,
                                         !.result = Return(generate_overall_summary(a.result))]
    /\ UNCHANGED <<row, pc, frame, http, background_tasks>>

SummaryNext == generate_overall_summary_prompt \/ generate_overall_summary_attempt

SummarySpec == SummaryInit /\ [][SummaryNext]_vars

TypeOK ==
    /\ \A t \in Tasks : pc[t] \in Positions
    /\ \A t \in Tasks : row[t] = NoRow \/ row[t].status \in TaskStatus
    /\ \A t \in Tasks : frame[t].attempt \in 1..MaxAttempts
    /\ \A t \in Tasks : background_tasks[t] \in 0..1
    /\ http.code \in {0, 200, 400, 404, 500}
    /\ fn = Idle

\* ------------------------------------------------------------------ claims

Terminal == {COMPLETED, FAILED}

HasRow(t) == row[t] # NoRow

\* task t took a step of its run (not a step of another task, not a delete)
RunStep(t) == <<pc[t], frame[t]>> # <<pc'[t], frame'[t]>>

\* the call of model.generate_content made in this step answered
Answered(t) == RunStep(t) /\ pc[t] \in GatewaySteps /\ frame'[t].last_attempt.kind # "raise"

\* C1: in every reachable state every row has a result exactly when its
\* status is Completed and an error_message exactly when its status is
\* Failed (so never both, and never Completed without a result).
C1_ResultIffCompleted ==
    \A t \in Tasks :
        HasRow(t) =>
            /\ (row[t].result # Null) <=> (row[t].status = COMPLETED)
            /\ (row[t].error_message # Null) <=> (row[t].status = FAILED)

C1_Witness ==
    \E t \in Tasks :
        HasRow(t) /\ row[t].status = FAILED /\ row[t].error_message # Null
        /\ pc[t] = "raised"

\* C2: the status of a row only moves Queued -> Processing -> Completed or
\* Failed: a row is created Queued, no step takes it from Queued to a
\* terminal status, and no step moves it backwards.
StatusMoves == {<<QUEUED, PROCESSING>>, <<PROCESSING, COMPLETED>>, <<PROCESSING, FAILED>>}

C2_StatusSequence ==
    [][\A t \in Tasks :
          \/ row'[t] = row[t]
          \/ row'[t] = NoRow
          \/ row[t] = NoRow /\ row'[t].status = QUEUED
          \/ HasRow(t) /\ <<row[t].status, row'[t].status>> \in StatusMoves]_vars

\* C3: once the status of a row is Completed or Failed, no step changes the
\* row except the one that deletes it.
C3_TerminalFrozen ==
    [][\A t \in Tasks :
          HasRow(t) /\ row[t].status \in Terminal
              => row'[t] = row[t] \/ row'[t] = NoRow]_vars

C3_Witness ==
    \E t \in Tasks :
        HasRow(t) /\ row[t].status = COMPLETED /\ pc[t] = "returned"

\* C4: under fairness of the runs, every created task that is not deleted
\* eventually reaches Completed or Failed: a row that exists leads to a
\* state where it is deleted or its status is terminal.
C4_EventuallyTerminal ==
    \A t \in Tasks :
        HasRow(t) ~> (~HasRow(t) \/ row[t].status \in Terminal)

\* C5: when an exception that escaped _execute_pipeline is handled, the
\* row (if it is still there) gets status Failed and that exception's
\* message in one update, and run_evaluation re-raises that exception;
\* run_evaluation returns normally only with the row Completed.
C5_FailureRecorded ==
    [][\A t \in Tasks :
          /\ pc[t] = "handler" /\ frame[t].exc.at \in PipelineSteps /\ RunStep(t)
                => /\ pc'[t] = "raised"
                   /\ frame'[t].exc = frame[t].exc
                   /\ row'[t] # NoRow =>
                        /\ row'[t].status = FAILED
                        /\ row'[t].error_message = Some(frame[t].exc.msg)
          /\ pc'[t] = "returned" /\ row'[t] # NoRow => row'[t].status = COMPLETED]_vars

\* C6: a gateway call makes at most 3 attempts; a failed attempt before the
\* third is followed by another attempt of the same request, a failed third
\* attempt raises to the caller, and an attempt that answers ends the call
\* (no further attempt) with its text returned: the summary step returns
\* that text.
C6_ThreeAttempts ==
    [][\A t \in Tasks :
          pc[t] \in GatewaySteps /\ RunStep(t) =>
              LET k == frame[t].attempt
                  o == frame'[t].last_attempt
              IN  /\ k \in 1..MaxAttempts
                  /\ o.kind = "raise" /\ k < MaxAttempts
                        => pc'[t] = pc[t] /\ frame'[t].attempt = k + 1
                  /\ o.kind = "raise" /\ k = MaxAttempts => pc'[t] # pc[t]
                  /\ o.kind = "raise" /\ k = MaxAttempts /\ pc[t] # "step5"
                        => pc'[t] = "handler" /\ frame'[t].exc.at = pc[t]
                  /\ o.kind # "raise" => pc'[t] # pc[t]
                  /\ o.kind # "raise" /\ pc'[t] = "write_completed"
                        => frame'[t].evaluation_result.overall_summary = o.body]_vars

C6_Witness ==
    \E t \in Tasks :
        /\ pc[t] = "handler"
        /\ frame[t].last_attempt.kind = "raise"
        /\ frame[t].exc.at = "step3"

\* The run of t is failing because a gateway call of steps 1..4 used up its
\* attempts: the last call of the service raised and the exception being
\* handled was raised in that step.
Exhausted(t) ==
    /\ pc[t] \in {"handler", "raised"}
    /\ frame[t].last_attempt.kind = "raise"
    /\ frame[t].exc.at \in GatewaySteps \ {"step5"}

\* C7: after the third failed attempt the exception the gateway's caller
\* gets is the one the last service call raised, and the error_message of
\* the Failed row is that exception's message.
C7_FinalServiceError ==
    \A t \in Tasks :
        Exhausted(t) =>
            /\ frame[t].exc.type = frame[t].last_attempt.type
            /\ frame[t].exc.msg = frame[t].last_attempt.msg
            /\ pc[t] = "raised" /\ HasRow(t) /\ row[t].status = FAILED
                  => row[t].error_message = Some(frame[t].last_attempt.msg)

\* C8: whatever text the service answers with, the step that asked for it
\* does not fail the run: no step in which the service answered hands an
\* exception to the except clause of run_evaluation.
C8_AnswerNeverFails ==
    [][\A t \in Tasks : Answered(t) => pc'[t] # "handler"]_vars

\* C9: when the profile-extraction answer is not JSON, step 3 runs with
\* the empty profile, the run does not fail in step 1, and a run that
\* returns leaves the row Completed.
C9_NonJsonProfile ==
    \A t \in Tasks :
        frame[t].profile_not_json =>
            /\ pc[t] = "step3" => frame[t].cv_data = EmptyProfile
            /\ pc[t] \in {"handler", "raised"} => frame[t].exc.at # "step1"
            /\ pc[t] = "returned" /\ HasRow(t) => row[t].status = COMPLETED

C9_Witness ==
    \E t \in Tasks :
        /\ frame[t].profile_not_json
        /\ pc[t] = "returned"
        /\ HasRow(t) /\ row[t].status = COMPLETED

\* A scoring answer that fails to parse: it is not JSON, or it is an object
\* without one of the three keys the step reads (and is well formed
\* otherwise).
FailsToParse(o, keys) ==
    \/ o.kind = "text"
    \/ /\ o.kind = "object"
       /\ ~(keys \subseteq o.keys)
       /\ o.subkeys /\ InRange(o.sub, SubMin, SubMax)

\* What the initial answer, once parsed, says the evaluation is.
InitialEvaluation(d) ==
    IF d # Unset /\ d.kind = "object" THEN Evaluation(d.value, d.feedback, d.sub)
    ELSE Unset

C11_FenceTransparent ==
    \A d \in Documents(fn.step) :
        \A opening \in {Fence, FenceJson}, il \in Padding, ir \in Padding,
           left \in Padding, right \in Padding :
            /\ fn.done
            /\ fn.response = left \o Fenced(opening, il, d.text, ir) \o right
            => fn.result = structured_step(fn.step, d.text)

C11_Witness ==
    /\ fn.done
    /\ fn.step = "step3"
    /\ fn.response = <<"\n">> \o Fenced(FenceJson, <<"\n">>, <<"{", "c", "}">>, <<"\n">>)
    /\ fn.result = Return(Evaluation(7, "model feedback", 4))

\* The relevance of a stored document for a query: the number of
\* lower-cased whitespace-split query terms that are substrings of the
\* lower-cased content.
Relevance(query, content) ==
    LET terms == str_split(str_lower(query))
    IN  Cardinality({k \in 1..Len(terms) : Contains(str_lower(content), terms[k])})

\* The stored documents the call may return: right type, relevance >= 1.
Matching ==
    {i \in 1..Len(fn.documents) :
        /\ fn.context_type \in {Null, Some(fn.documents[i].type)}
        /\ Relevance(fn.query, fn.documents[i].content) >= 1}

\* j comes before i: higher relevance, or the same and inserted earlier.
Before(j, i) ==
    LET rj == Relevance(fn.query, fn.documents[j].content)
        ri == Relevance(fn.query, fn.documents[i].content)
    IN  rj > ri \/ (rj = ri /\ j < i)

Place(i) == 1 + Cardinality({j \in Matching : Before(j, i)})

\* C12: retrieve returns exactly the first n_results of the matching
\* documents (right type, relevance >= 1) in order of descending relevance,
\* ties in insertion order: never a document of relevance 0, never more
\* than n_results documents.
C12_RetrieveRanked ==
    fn.done =>
        /\ Len(fn.result) <= fn.n_results
        /\ Len(fn.result) = IF fn.n_results < Cardinality(Matching)
                             THEN fn.n_results ELSE Cardinality(Matching)
        /\ \A p \in 1..Len(fn.result) : fn.result[p].score >= 1
        /\ \A i \in Matching :
              Place(i) <= fn.n_results =>
                  fn.result[Place(i)] =
                      [content |-> fn.documents[i].content,
                       type |-> fn.documents[i].type,
                       score |-> Relevance(fn.query, fn.documents[i].content)]

\* A tie (documents 1 and 3 have relevance 2, document 4 has 1) cut by
\* the limit.
C12_Witness ==
    /\ fn.done
    /\ Len(fn.documents) = 4
    /\ fn.query = <<"A", " ", "b">>
    /\ fn.context_type = Some("scoring_rubric")
    /\ fn.n_results = 2
    /\ Len(fn.result) = 2
    /\ fn.result[1].content = <<"a", "b", " ", "c">>
    /\ fn.result[2].content = <<"A", "b", "c">>

\* C13: a submission with an unsupported CV or report format is turned
\* away by both endpoints before a row is written, so no row is ever Failed
\* with the message of the reader for an unsupported format.
C13_NoUnsupportedFailure ==
    \A t \in Tasks :
        HasRow(t) =>
            /\ validate_file_format(row[t].cv_file_path)
            /\ validate_file_format(row[t].project_report_path)
            /\ ~ \E n \in CvNames \cup ReportNames :
                    /\ row[t].status = FAILED
                    /\ row[t].error_message =
                          Some("Unsupported file format: " \o Lower(n.ext))

\* C14: a step that answers a submission with 200 writes exactly one row,
\* new, Queued, with result and error unset, answers with the id of that
\* row and Queued, and schedules the run of that id once; a run is only
\* ever scheduled by such a step, for a row already committed in it, and a
\* submission answered otherwise schedules nothing.
C14_SubmissionCreatesOne ==
    [][ /\ (http' # http /\ http'.code = 200) =>
              \E t \in Tasks :
                  /\ http'.body = [id |-> t, status |-> QUEUED]
                  /\ row[t] = NoRow
                  /\ HasRow(t)'
                  /\ row'[t].status = QUEUED
                  /\ row'[t].result = Null
                  /\ row'[t].error_message = Null
                  /\ \A u \in Tasks \ {t} : row'[u] = row[u]
                  /\ background_tasks' = [background_tasks EXCEPT ![t] = 1]
                  /\ background_tasks[t] = 0
        /\ (http' # http /\ http'.code # 200) =>
              background_tasks' = background_tasks
        /\ \A t \in Tasks :
              background_tasks'[t] # background_tasks[t] =>
                  /\ http'.code = 200
                  /\ http'.body = [id |-> t, status |-> QUEUED]
                  /\ HasRow(t)'
                  /\ row[t] = NoRow
      ]_vars

\* A submission was answered 200 and its run is scheduled, not yet started.
C14_Witness ==
    /\ http = [code |-> 200, body |-> [id |-> 1, status |-> QUEUED]]
    /\ HasRow(1)
    /\ row[1].status = QUEUED
    /\ background_tasks[1] = 1
    /\ pc[1] = "scheduled"

\* C15: in every reachable state the answer of GET /result/{id} is 404
\* for an id without a row; for a row it is 200 with the stored status, a
\* result only when that status is Completed (the stored result), an error
\* only when it is Failed (the stored message), and never both.
C15_StatusReport ==
    \A t \in Tasks :
        LET response == get_evaluation_result_response(row[t])
        IN  IF ~HasRow(t) THEN response.code = 404
            ELSE /\ response.code = 200
                 /\ response.status = row[t].status
                 /\ response.result # Null =>
                        row[t].status = COMPLETED /\ response.result = row[t].result
                 /\ response.error # Null =>
                        row[t].status = FAILED /\ response.error = row[t].error_message
                 /\ response.result = Null \/ response.error = Null

\* A Completed task is polled: the answer carries its result and no error.
C15_Witness ==
    \E t \in Tasks :
        /\ HasRow(t)
        /\ row[t].status = COMPLETED
        /\ get_evaluation_result_response(row[t]).result = row[t].result
        /\ get_evaluation_result_response(row[t]).result # Null
        /\ get_evaluation_result_response(row[t]).error = Null

\* The id t was issued and its row is gone: DELETE /task/t succeeded.
Deleted(t) == pc[t] # "absent" /\ ~HasRow(t)

\* C16: a DELETE request on a row removes it whatever the state of the two
\* files; once the row of an issued id is gone no later step brings it
\* back, so GET /result answers 404 for it and GET /tasks does not list it,
\* in every later state, whatever the run of the task still writes.
C16_DeletedStaysDeleted ==
    /\ [](\A t \in Tasks : HasRow(t) =>
              \A files \in FileStates :
                  delete_task_result(row[t], files) = [code |-> 200, row |-> NoRow])
    /\ [](\A t \in Tasks : Deleted(t) =>
              /\ get_evaluation_result_response(row[t]).code = 404
              /\ t \notin list_tasks_response(row))
    /\ [][\A t \in Tasks : Deleted(t) => Deleted(t)']_vars

\* The task was deleted while its run was in the pipeline; the run now
\* holds its result and is about to issue the Completed update.
C16_Witness ==
    \E t \in Tasks : Deleted(t) /\ pc[t] = "write_completed"

\* C17: in every reachable state the result of every Completed row has
\* cv_match_rate within [0, 1] (in tenths), project_score within [1, 10]
\* and the sub-scores of both details within [1, 5], although the service
\* answers with values outside these ranges.
C17_ResultInRange ==
    \A t \in Tasks :
        (HasRow(t) /\ row[t].status = COMPLETED /\ row[t].result # Null) =>
            LET result == row[t].result[1]
            IN  /\ InRange(result.cv_match_rate, RateMin, RateMax)
                /\ InRange(result.project_score, ScoreMin, ScoreMax)
                /\ InRange(result.cv_evaluation_details, SubMin, SubMax)
                /\ InRange(result.project_evaluation_details, SubMin, SubMax)

\* A Completed row that holds the values of the service's answers, not the
\* fallback values.
C17_Witness ==
    \E t \in Tasks :
        /\ HasRow(t)
        /\ row[t].status = COMPLETED
        /\ row[t].result # Null
        /\ row[t].result[1].cv_match_rate = 7
        /\ row[t].result[1].project_score = 8
        /\ row[t].result[1].cv_evaluation_details = 4

\* C18: with the runs of several tasks interleaved step by step, a step of
\* the run of task a (the Processing write, the pipeline, the Completed
\* write, the except clause) leaves the row of every other task as it was.
C18_WritesOwnRowOnly ==
    [][\A a, b \in Tasks : (a # b /\ RunStep(a)) => row'[b] = row[b]]_vars

\* The run of task 1 went through its failure path while the run of task 2
\* was between two gateway calls; the row of task 2 is still Processing.
C18_Witness ==
    /\ pc[1] = "raised"
    /\ HasRow(1)
    /\ row[1].status = FAILED
    /\ pc[2] \in GatewaySteps \ {"step1"}
    /\ HasRow(2)
    /\ row[2].status = PROCESSING
    /\ row[2].error_message = Null

\* The run of t has made its Processing write and not yet its terminal one.
BetweenWrites(t) ==
    pc[t] \in {"select", "delay", "write_completed", "handler"} \cup PipelineSteps

\* C19: from the Processing write of a run to its Completed or Failed
\* write, no other request writes the row of the task: the row changes
\* only in a step of that run and is still there for the terminal write
\* to take effect on.
C19_WritesLinearized ==
    [][\A t \in Tasks :
          (BetweenWrites(t) /\ HasRow(t) /\ row[t].status = PROCESSING) =>
              /\ row'[t] # row[t] => RunStep(t)
              /\ HasRow(t)'
      ]_vars

\* C20: whenever a run stands at the simulated delay, at a text
\* extraction or at a gateway call (the retrievals lie between the gateway
\* calls), the row of its task, unless deleted, has status Processing, and
\* that is the status GET /result answers with.
C20_ProcessingFirst ==
    \A t \in Tasks :
        (pc[t] \in {"select", "delay"} \cup PipelineSteps /\ HasRow(t)) =>
            /\ row[t].status = PROCESSING
            /\ get_evaluation_result_response(row[t]).status = PROCESSING

\* The run is about to make its first gateway call and a poll answers
\* Processing.
C20_Witness ==
    \E t \in Tasks :
        /\ pc[t] = "step1"
        /\ frame[t].attempt = 1
        /\ HasRow(t)
        /\ get_evaluation_result_response(row[t]).status = PROCESSING

\* C29: every sleep between two attempts of a gateway call lies between
\* min and max, and the sleep before the third attempt is twice the sleep
\* before the second one, or max when that is less.
C29_ExponentialBackoff ==
    \A t \in Tasks :
        /\ \A k \in 1..Len(frame[t].waits) :
              InRange(frame[t].waits[k], WaitMin, WaitMax)
        /\ Len(frame[t].waits) >= 2 =>
              frame[t].waits[2] =
                  IF 2 * frame[t].waits[1] < WaitMax
                  THEN 2 * frame[t].waits[1] ELSE WaitMax

\* C28: an error raised inside a retrieval ends the pipeline, so a run
\* never stands at a request of step 3 or step 4 with less than the
\* documents the retrievals of that step find.
C28_StoreErrorPropagates ==
    \A t \in Tasks :
        /\ pc[t] = "step3" => frame[t].context = Joined(JobContext \o CvContext)
        /\ pc[t] = "step4_initial" => frame[t].context = Joined(ProjectContext)

\* The positions a run can move to from a position of the pipeline, apart
\* from the except clause: itself (a further attempt of the same request)
\* or the next one in the order of _execute_pipeline.
Following(p) ==
    CASE p = "extract_cv" -> {"extract_project"}
      [] p = "extract_project" -> {"step1"}
      [] p = "step1" -> {"step1", "retrieve_cv_context"}
      [] p = "retrieve_cv_context" -> {"step3"}
      [] p = "step3" -> {"step3", "retrieve_project_context"}
      [] p = "retrieve_project_context" -> {"step4_initial"}
      [] p = "step4_initial" -> {"step4_initial", "step4_refine", "step5"}
      [] p = "step4_refine" -> {"step4_refine", "step5"}
      [] p = "step5" -> {"step5", "write_completed"}

\* C21: a run issues its requests in the order profile extraction, CV
\* match, project initial evaluation, refinement, summary: from a position
\* of the pipeline it moves to the same request again, to the next position
\* or to the except clause, and once in the except clause or past the
\* pipeline it issues nothing more; a request is only in flight when the
\* value of the previous one has been returned and the retrieval of its
\* step has been made.
C21_RequestsInOrder ==
    /\ [][\A t \in Tasks :
            /\ (pc[t] \in PipelineSteps /\ RunStep(t)) =>
                   pc'[t] \in Following(pc[t]) \cup {"handler"}
            /\ pc[t] \in {"write_completed", "handler", "returned", "raised"} =>
                   pc'[t] \notin PipelineSteps
            /\ pc'[t] \in PipelineSteps => pc[t] \in PipelineSteps \cup {"delay"}
        ]_vars
    /\ [](\A t \in Tasks :
            /\ pc[t] = "step1" => frame[t].cv_data = Unset
            /\ pc[t] = "step3" => frame[t].cv_data # Unset /\ frame[t].context # Unset
                                    /\ frame[t].cv = Unset
            /\ pc[t] = "step4_initial" =>
                   /\ frame[t].cv # Unset /\ frame[t].context # Unset
                   /\ frame[t].initial_data = Unset /\ frame[t].proj = Unset
            /\ pc[t] = "step4_refine" =>
                   /\ frame[t].initial_data # Unset /\ frame[t].proj = Unset
            /\ pc[t] = "step5" => frame[t].cv # Unset /\ frame[t].proj # Unset)

\* All five requests were issued: the summary request is in flight and the
\* project evaluation it is made with is the one of the refinement.
C21_Witness ==
    \E t \in Tasks :
        /\ pc[t] = "step5"
        /\ frame[t].attempt = 1
        /\ frame[t].cv # Unset
        /\ frame[t].proj # Unset
        /\ frame[t].proj # DefaultProject

\* C22: at a structured request, an attempt that returned text is the
\* last attempt of that request, whatever the text: the run leaves the
\* request with the attempt counter back at 1; and when the text is not
\* JSON the run goes on with the fallback value of the step.
C22_NoRetryOnParseFailure ==
    [][\A t \in Tasks :
          (pc[t] \in StructuredSteps /\ Answered(t)) =>
              /\ pc'[t] # pc[t]
              /\ frame'[t].attempt = 1
              /\ frame'[t].waits = <<>>
              /\ frame'[t].last_attempt.kind = "text" =>
                    CASE pc[t] = "step1" ->
                            /\ pc'[t] = "retrieve_cv_context"
                            /\ frame'[t].cv_data = EmptyProfile
                      [] pc[t] = "step3" ->
                            /\ pc'[t] = "retrieve_project_context"
                            /\ frame'[t].cv = DefaultCv
                      [] pc[t] \in {"step4_initial", "step4_refine"} ->
                            /\ pc'[t] = "step5"
                            /\ frame'[t].proj = DefaultProject
      ]_vars

\* The CV-match request returned text that is not JSON: the run is past
\* the request with the fallback value.
C22_Witness ==
    \E t \in Tasks :
        /\ pc[t] = "retrieve_project_context"
        /\ frame[t].last_attempt = NotJson
        /\ frame[t].cv = DefaultCv
        /\ frame[t].attempt = 1

\* C23: step 1 never ends the run. In particular, when the last attempt
\* of the profile-extraction request raises, the run does not enter the
\* except clause: it goes on to step 2 with the empty profile.
C23_StepOneNeverAborts ==
    [][\A t \in Tasks :
          (pc[t] = "step1" /\ RunStep(t) /\ frame'[t].last_attempt.kind = "raise"
             /\ frame[t].attempt = MaxAttempts) =>
              /\ pc'[t] = "retrieve_cv_context"
              /\ frame'[t].cv_data = EmptyProfile
      ]_vars

\* The requests of steps 3 and 4.
ScoringSteps == {"step3", "step4_initial", "step4_refine"}

\* C24: when the last attempt of a request of step 3 or step 4 raises,
\* the run enters the except clause with the gateway's exception and with
\* no evaluation substituted, and the step of the except clause leaves the
\* row of the task, if it is still there, Failed.
C24_ExhaustionFailsTask ==
    [][\A t \in Tasks :
          /\ (pc[t] \in ScoringSteps /\ RunStep(t)
                 /\ frame'[t].last_attempt.kind = "raise"
                 /\ frame[t].attempt = MaxAttempts) =>
                  /\ pc'[t] = "handler"
                  /\ frame'[t].exc.type = "RetryError"
                  /\ frame'[t].exc.at = pc[t]
                  /\ frame'[t].cv = Unset /\ frame'[t].proj = Unset
          /\ (pc[t] = "handler" /\ frame[t].exc.at \in ScoringSteps
                 /\ frame[t].exc.type = "RetryError" /\ RunStep(t) /\ HasRow(t)) =>
                  /\ pc'[t] = "raised"
                  /\ row'[t].status = FAILED
      ]_vars

\* In the pipeline, when the last attempt of the summary request raises, the run does
\* not fail because of it: it holds a result whose overall_summary is the
\* generic sentence and whose other fields are the values of steps 3 and 4
\* (unless EvaluationResult rejects those values, as it would with any
\* summary), and the Completed write that follows stores that result.
SummaryFallbackInPipeline ==
    [][\A t \in Tasks :
          /\ (pc[t] = "step5" /\ RunStep(t)
                 /\ frame'[t].last_attempt.kind = "raise"
                 /\ frame[t].attempt = MaxAttempts) =>
                  /\ pc'[t] \in {"write_completed", "handler"}
                  /\ pc'[t] = "handler" =>
                        /\ frame'[t].exc.type = "ValidationError"
                        /\ \/ ~InRange(frame[t].cv.value, RateMin, RateMax)
                           \/ ~InRange(frame[t].proj.value, ScoreMin, ScoreMax)
                  /\ pc'[t] = "write_completed" =>
                        frame'[t].evaluation_result =
                            [cv_match_rate |-> frame[t].cv.value,
                             cv_feedback |-> frame[t].cv.feedback,
                             project_score |-> frame[t].proj.value,
                             project_feedback |-> frame[t].proj.feedback,
                             overall_summary |-> GenericSummary,
                             cv_evaluation_details |-> frame[t].cv.sub,
                             project_evaluation_details |-> frame[t].proj.sub]
          /\ (pc[t] = "write_completed" /\ pc'[t] = "returned" /\ HasRow(t)) =>
                  /\ row'[t].status = COMPLETED
                  /\ row'[t].result = Some(frame[t].evaluation_result)
      ]_vars

\* C25: however generate_overall_summary fails, it returns: it never
\* raises to _execute_pipeline, and when the gateway raised what it returns
\* is the generic sentence.
C25_SummaryNeverFails ==
    (fn.op = "generate_overall_summary" /\ fn.done) =>
        /\ ~fn.result.raised
        /\ fn.last_attempt.kind = "raise" => fn.result.value = GenericSummary

\* A scoring answer that parses: an object with the three keys the step
\* reads and with every sub-score present and in range.
Parses(o, keys) ==
    /\ o.kind = "object"
    /\ keys \subseteq o.keys
    /\ o.subkeys /\ InRange(o.sub, SubMin, SubMax)

\* C26: when the initial project answer parsed and the refined answer
\* parses, the score, the feedback and the sub-scores step 4 returns are
\* those of the refined answer, not those of the initial answer.
C26_RefinementWins ==
    [][\A t \in Tasks :
          (/\ pc[t] = "step4_refine" /\ Answered(t)
           /\ Parses(frame'[t].last_attempt, ProjectKeys))
          => /\ pc'[t] = "step5"
             /\ frame'[t].proj = Evaluation(frame'[t].last_attempt.value,
                                            frame'[t].last_attempt.feedback,
                                            frame'[t].last_attempt.sub)
             /\ frame'[t].proj # InitialEvaluation(frame[t].initial_data)]_vars

\* The refined answer (8, sub-scores 4) was parsed and step 4 returned it.
C26_Witness ==
    \E t \in Tasks :
        /\ pc[t] = "step5"
        /\ frame[t].last_attempt = ScoreObject(ProjectKeys, 8, 4, TRUE)
        /\ frame[t].proj = Evaluation(8, "model feedback", 4)

C30_BlockedCallBlocksNoOther ==
    \A t \in Running \ {BlockedTask} :
        <>(/\ pc[t] \in {"returned", "raised"}
           /\ row[t].status \in Terminal \/ frame[t].exc.at = "handler")

\* The first task is inside its first gateway call and the last task has
\* reached Completed.
C30_Witness ==
    /\ pc[BlockedTask] = "step1"
    /\ frame[BlockedTask].attempt = 1
    /\ pc[MaxRunning] = "returned"
    /\ row[MaxRunning].status = COMPLETED

\* The positions of _execute_pipeline after the two extractions: the
\* retrievals and the gateway requests.
Orchestration == GatewaySteps \cup {"retrieve_cv_context", "retrieve_project_context"}

ExtractionSteps == {"extract_cv", "extract_project"}

\* C31: the run enters the orchestration only from the extraction of the
\* project report having returned, and that extraction only from the
\* extraction of the CV having returned; an extraction that raises takes
\* the run to the except clause with no gateway attempt made, and the step
\* of the except clause leaves the row of the task, if it is still there,
\* Failed.
C31_ExtractionFirst ==
    [][\A t \in Tasks :
          /\ (pc'[t] \in Orchestration /\ pc[t] \notin Orchestration) =>
                  pc[t] = "extract_project" /\ pc'[t] = "step1"
          /\ (pc'[t] = "extract_project" /\ RunStep(t)) => pc[t] = "extract_cv"
          /\ (pc[t] \in ExtractionSteps /\ RunStep(t)) =>
                  /\ pc'[t] \in {"extract_project", "step1", "handler"}
                  /\ frame'[t].last_attempt = NoAttempt
                  /\ pc'[t] = "handler" => frame'[t].exc.at = pc[t]
          /\ (pc[t] = "handler" /\ frame[t].exc.at \in ExtractionSteps
                 /\ RunStep(t) /\ HasRow(t)) =>
                  /\ pc'[t] = "raised"
                  /\ frame'[t].last_attempt = NoAttempt
                  /\ row'[t].status = FAILED
      ]_vars

\* The part of C31 that the except clause cannot break: the order of the
\* extractions and the orchestration, and no gateway attempt after an
\* extraction raised.
ExtractionBeforeOrchestration ==
    [][\A t \in Tasks :
          /\ (pc'[t] \in Orchestration /\ pc[t] \notin Orchestration) =>
                  pc[t] = "extract_project" /\ pc'[t] = "step1"
          /\ (pc'[t] = "extract_project" /\ RunStep(t)) => pc[t] = "extract_cv"
          /\ (pc[t] \in ExtractionSteps /\ RunStep(t)) =>
                  /\ pc'[t] \in {"extract_project", "step1", "handler"}
                  /\ frame'[t].last_attempt = NoAttempt
          /\ (pc[t] = "handler" /\ frame[t].exc.at \in ExtractionSteps /\ RunStep(t)) =>
                  /\ pc'[t] = "raised"
                  /\ frame'[t].last_attempt = NoAttempt
      ]_vars

\* The number of gateway requests a run at position p has issued at most,
\* the one in flight included.
RequestsIssued(p) ==
    CASE p \in {"step1", "retrieve_cv_context"} -> 1
      [] p \in {"step3", "retrieve_project_context"} -> 2
      [] p = "step4_initial" -> 3
      [] p = "step4_refine" -> 4
      [] p \in {"step5", "write_completed", "handler", "returned", "raised"} -> 5
      [] OTHER -> 0

\* C32: a step of a run at a gateway request is another attempt of the
\* same request (the attempt counter goes up by one and stays within 3), or
\* it leaves the request; a request is entered with the attempt counter at
\* 1 and only from a position at which fewer requests were issued, and no
\* step takes the run back. So a run issues each of its at most 5 requests
\* once and makes at most 15 attempts.
C32_NoOrchestratorRetry ==
    /\ [][\A t \in Tasks :
            /\ (pc[t] \in GatewaySteps /\ RunStep(t) /\ pc'[t] = pc[t]) =>
                   /\ frame'[t].attempt = frame[t].attempt + 1
                   /\ frame'[t].last_attempt.kind = "raise"
            /\ (pc'[t] \in GatewaySteps /\ pc'[t] # pc[t]) =>
                   /\ RequestsIssued(pc'[t]) > RequestsIssued(pc[t])
                   /\ frame'[t].attempt = 1
            /\ (pc[t] \in PipelineSteps \cup {"write_completed", "handler", "returned", "raised"}) =>
                   RequestsIssued(pc'[t]) >= RequestsIssued(pc[t])
        ]_vars
    /\ [](\A t \in Tasks :
            /\ RequestsIssued(pc[t]) <= 5
            /\ pc[t] \in GatewaySteps =>
                   /\ frame[t].attempt \in 1..MaxAttempts
                   /\ MaxAttempts * (RequestsIssued(pc[t]) - 1) + frame[t].attempt <= 15)

\* The fifth request, issued after the refinement request returned, is at
\* its third attempt.
C32_Witness ==
    \E t \in Tasks :
        /\ pc[t] = "step5"
        /\ frame[t].attempt = MaxAttempts
        /\ frame[t].proj = Evaluation(8, "model feedback", 4)

\* C33: the refinement request is entered only from the initial request
\* of step 4, by the step in which that request returned an answer that
\* json.loads accepts, and that answer is the initial evaluation quoted in
\* the refinement prompt; when the initial answer is not JSON the run goes
\* to step 5 with the default and the refinement request is never issued.
C33_RefinementAfterParse ==
    [][\A t \in Tasks :
          /\ (pc'[t] = "step4_refine" /\ pc[t] # "step4_refine") =>
                 /\ pc[t] = "step4_initial"
                 /\ frame'[t].last_attempt.kind \notin {"text", "raise"}
                 /\ frame'[t].initial_data = frame'[t].last_attempt
          /\ (pc[t] = "step4_initial" /\ Answered(t)
                 /\ frame'[t].last_attempt.kind = "text") =>
                 /\ pc'[t] = "step5"
                 /\ frame'[t].proj = Evaluation(DefaultScore,
                                                "Unable to evaluate project properly", DefaultSub)
                 /\ frame'[t].initial_data = Unset
      ]_vars

\* The refinement request is in flight and the initial evaluation it
\* refines is the parsed initial answer.
C33_Witness ==
    \E t \in Tasks :
        /\ pc[t] = "step4_refine"
        /\ frame[t].attempt = 1
        /\ frame[t].last_attempt = ScoreObject(ProjectKeys, 6, 2, TRUE)
        /\ frame[t].initial_data = ScoreObject(ProjectKeys, 6, 2, TRUE)

\* C34: the simulated fault is raised only at the position between the
\* select of the task and the extraction of the CV, where the row, if it
\* is still there, is Processing; it takes the run to the except clause
\* with one of the three messages of failure_types and no gateway attempt
\* made, and the step of the except clause leaves the row, if it is still
\* there, Failed with that message.
C34_SimulatedFault ==
    /\ [](\A t \in Tasks : (pc[t] = "delay" /\ HasRow(t)) => row[t].status = PROCESSING)
    /\ [][\A t \in Tasks :
            /\ (pc'[t] = "delay" /\ RunStep(t)) => pc[t] = "select"
            /\ (pc[t] = "delay" /\ RunStep(t)) =>
                   /\ pc'[t] \in {"extract_cv", "handler"}
                   /\ frame'[t].last_attempt = NoAttempt
                   /\ pc'[t] = "handler" =>
                         /\ frame'[t].exc.msg \in SimulatedFailures
                         /\ frame'[t].exc.at = "delay"
            /\ (frame'[t].exc.msg \in SimulatedFailures /\ frame[t].exc = NoExc) =>
                   pc[t] = "delay"
            /\ (pc[t] = "handler" /\ frame[t].exc.at = "delay" /\ RunStep(t) /\ HasRow(t)) =>
                   /\ pc'[t] = "raised"
                   /\ frame'[t].last_attempt = NoAttempt
                   /\ row'[t].status = FAILED
                   /\ row'[t].error_message = Some(frame[t].exc.msg)
                   /\ frame[t].exc.msg \in SimulatedFailures
        ]_vars

\* The part of C34 that the except clause cannot break: where the fault
\* is raised and that no gateway attempt is made after it.
SimulatedFaultBeforePipeline ==
    /\ [](\A t \in Tasks : (pc[t] = "delay" /\ HasRow(t)) => row[t].status = PROCESSING)
    /\ [][\A t \in Tasks :
            /\ (pc'[t] = "delay" /\ RunStep(t)) => pc[t] = "select"
            /\ (pc[t] = "delay" /\ RunStep(t)) =>
                   /\ pc'[t] \in {"extract_cv", "handler"}
                   /\ frame'[t].last_attempt = NoAttempt
                   /\ pc'[t] = "handler" =>
                         /\ frame'[t].exc.msg \in SimulatedFailures
                         /\ frame'[t].exc.at = "delay"
            /\ (frame'[t].exc.msg \in SimulatedFailures /\ frame[t].exc = NoExc) =>
                   pc[t] = "delay"
            /\ (pc[t] = "handler" /\ frame[t].exc.at = "delay" /\ RunStep(t)) =>
                   /\ pc'[t] = "raised"
                   /\ frame'[t].last_attempt = NoAttempt
                   /\ frame'[t].exc = frame[t].exc =>
                         (HasRow(t) => /\ row'[t].status = FAILED
                                       /\ row'[t].error_message = Some(frame[t].exc.msg))
        ]_vars

\* C35: when run_evaluation is called for a task that is already
\* Completed or Failed, the row of the task keeps its status, its result and
\* its error message through every step of that run and at its end (or is
\* deleted): no reader sees a status that is not terminal.
C35_RunIdempotent ==
    /\ [](\A t \in Running : HasRow(t) => row[t].status \in Terminal)
    /\ [][\A t \in Running :
            (HasRow(t) /\ HasRow(t)') =>
                /\ row'[t].status = row[t].status
                /\ row'[t].result = row[t].result
                /\ row'[t].error_message = row[t].error_message]_vars

\* The input files of the task of row r that are on the disk.
InputFiles(r, disk) ==
    IF r = NoRow THEN {} ELSE {r.cv_file_path, r.project_report_path} \cap disk.files

\* C36: the step that deletes the row of a task changes neither the row
\* of another task nor which input files of that other task exist,
\* whatever paths the two tasks were created with.
C36_DeleteLeavesOthers ==
    [][\A a \in Running, b \in Running :
          (a # b /\ row[a] # NoRow /\ row'[a] = NoRow) =>
              /\ row'[b] = row[b]
              /\ InputFiles(row[b], fn') = InputFiles(row[b], fn)]_vars

\* The name ends in a dot and one word, the word is pdf, docx, doc or txt
\* in any case, and the last component of the name has a piece that is not
\* a dot before that dot.
SupportedName(p) ==
    /\ Len(p) >= 3
    /\ p[Len(p) - 1] = "."
    /\ p[Len(p)] \in {"pdf", "PDF", "Docx", "doc", "txt"}
    /\ \E i \in 1..(Len(p) - 2) :
          /\ p[i] # "."
          /\ \A j \in i..(Len(p) - 2) : p[j] # "/"

====
